---- MODULE Spec2Model ----
(***************************************************************************)
(* A model of the stock screener: the metrics engine (metrics.py), the     *)
(* validator (validators.py), the price-data provider (data_manager.py)    *)
(* and the screening pipeline (screener_engine.py).                        *)
(*                                                                         *)
(* Floating-point values are modelled as extended rationals: a triple      *)
(* <<kind, n, d>> with kind "fin" (the rational n/d in lowest terms,       *)
(* d > 0), "nan", "pinf" or "ninf".  Arithmetic follows IEEE-754 on the    *)
(* special values (inf - inf = nan, inf * 0 = nan, x / inf = 0) and is     *)
(* exact on finite ones (no rounding, no overflow of finite values).       *)
(***************************************************************************)
EXTENDS Integers, Sequences, FiniteSets, TLC

VARIABLES
    \* ---- ScreenerEngine.screen_stocks: one call on a fresh engine
    pc,             \* "idle" | "loop" | "returned" | "raised"
    tickers,        \* the `tickers` argument
    benchmark,      \* the `benchmark` argument
    lookback,       \* the `lookback` argument
    idx,            \* position of the for loop in `tickers` (1-based)
    results,        \* the local list `results`
    benchmark_data, \* the local `benchmark_data` (an optional series)
    report,         \* the returned DataFrame (an optional sequence of rows)
    error,          \* message of the exception screen_stocks raised, or ""
    clock,          \* datetime.now() as the last screen_stocks call read it
    \* ---- DataManager
    lru,            \* memo of @lru_cache on get_stock_data: key -> result
    db,             \* rows of the sqlite table stock_cache: key -> series
    events,         \* what was called, in order: <<operation, argument>>
    \* ---- MetricsEngine
    calculators,    \* self.calculators: metric name -> calculator
    m_stock,        \* last stock_returns given to calculate_all_metrics
    m_bench,        \* last benchmark_returns given to calculate_all_metrics
    m_calcs,        \* the registry that call ran with
    m_out,          \* what that call produced (see CalculateAllMetrics)
    m_done,         \* whether calculate_all_metrics has been called
    \* ---- DataValidator and DataManager called on their own
    v_call,         \* the DataValidator call made: method, arguments, result
    d_call,         \* the last get_stock_data call: arguments and outcome
    \* ---- ParallelProcessor, and threads inside get_stock_data
    p_call,         \* the parallel_metric_calculation call: arguments, outcome
    workers         \* thread -> its position in get_stock_data and its data

vars == <<pc, tickers, benchmark, lookback, idx, results, benchmark_data,
          report, error, clock, lru, db, events,
          calculators, m_stock, m_bench, m_calcs, m_out, m_done,
          v_call, d_call, p_call, workers>>

screenVars == <<pc, tickers, benchmark, lookback, idx, results,
                benchmark_data, report, error, clock, lru, db, events>>

metricVars == <<calculators, m_stock, m_bench, m_calcs, m_out, m_done>>

callVars == <<v_call, d_call, p_call, workers>>

\* ------------------------------------------------------------------------
\* Bounds of the model
\* ------------------------------------------------------------------------
MaxTickers == 2
MaxLookback == 3
MaxRet == 2

\* ------------------------------------------------------------------------
\* Program constants
\* ------------------------------------------------------------------------
MinValidLen == 20
MinDataPoints == 10
TradingDays == 252
BufferDays == 100
MaxAnomalies == 3

\* ------------------------------------------------------------------------
\* Floats
\* ------------------------------------------------------------------------
NaN == <<"nan", 0, 1>>
PInf == <<"pinf", 0, 1>>
NInf == <<"ninf", 0, 1>>

Abs(i) == IF i < 0 THEN -i ELSE i

\* F(v) with v evaluated once, however often F uses it
Let1(v, F(_)) == CHOOSE r \in {F(x) : x \in {v}} : TRUE

\* The greatest common divisor, as a function: its arguments are values.
Gcd[a \in Nat, b \in Nat] == IF b = 0 THEN a ELSE Gcd[b, a % b]

\* Each float operation is defined on values (...Of) and then as the
\* operator that evaluates its operands once and applies it.
RatOf(n, d) ==
    LET g == Gcd[Abs(n), Abs(d)]
        s == IF d < 0 THEN -1 ELSE 1
    IN  <<"fin", (s * n) \div g, (s * d) \div g>>

\* The float n/d (d # 0), in lowest terms with a positive denominator.
Rat(n, d) == CHOOSE r \in {RatOf(a, b) : a \in {n}, b \in {d}} : TRUE

Zero == Rat(0, 1)
One == Rat(1, 1)

IsNaN(x) == x[1] = "nan"
IsFinite(x) == x[1] = "fin"
IsInf(x) == x[1] \in {"pinf", "ninf"}

\* -1, 0 or 1; not used on nan.
Sgn(x) ==
    CASE x[1] = "pinf" -> 1
      [] x[1] = "ninf" -> -1
      [] OTHER -> IF x[2] > 0 THEN 1 ELSE IF x[2] < 0 THEN -1 ELSE 0

InfOfSign(s) == IF s > 0 THEN PInf ELSE NInf

FNegOf(x) ==
    CASE x[1] = "nan" -> NaN
      [] x[1] = "pinf" -> NInf
      [] x[1] = "ninf" -> PInf
      [] OTHER -> Rat(-x[2], x[3])

\* -x
FNeg(x) == CHOOSE r \in {FNegOf(a) : a \in {x}} : TRUE

FAddOf(x, y) ==
    IF IsNaN(x) \/ IsNaN(y) THEN NaN
    ELSE IF IsInf(x) /\ IsInf(y) THEN (IF x = y THEN x ELSE NaN)
    ELSE IF IsInf(x) THEN x
    ELSE IF IsInf(y) THEN y
    ELSE LET g == Gcd[x[3], y[3]]
         IN  Rat(x[2] * (y[3] \div g) + y[2] * (x[3] \div g),
                 (x[3] \div g) * y[3])

\* x + y
FAdd(x, y) == CHOOSE r \in {FAddOf(a, b) : a \in {x}, b \in {y}} : TRUE

\* x - y
FSub(x, y) == FAdd(x, FNeg(y))

FMulOf(x, y) ==
    IF IsNaN(x) \/ IsNaN(y) THEN NaN
    ELSE IF IsInf(x) \/ IsInf(y)
         THEN (IF Sgn(x) = 0 \/ Sgn(y) = 0 THEN NaN
               ELSE InfOfSign(Sgn(x) * Sgn(y)))
    ELSE LET g1 == Gcd[Abs(x[2]), y[3]]
             g2 == Gcd[Abs(y[2]), x[3]]
         IN  Rat((x[2] \div g1) * (y[2] \div g2),
                 (x[3] \div g2) * (y[3] \div g1))

\* x * y
FMul(x, y) == CHOOSE r \in {FMulOf(a, b) : a \in {x}, b \in {y}} : TRUE

FDivOf(x, y) ==
    IF IsNaN(x) \/ IsNaN(y) THEN NaN
    ELSE IF IsInf(y) THEN (IF IsInf(x) THEN NaN ELSE Zero)
    ELSE IF Sgn(y) = 0
         THEN (IF Sgn(x) = 0 THEN NaN ELSE InfOfSign(Sgn(x)))
    ELSE IF IsInf(x) THEN InfOfSign(Sgn(x) * Sgn(y))
    ELSE FMul(x, Rat(y[3], y[2]))

\* x / y
FDiv(x, y) == CHOOSE r \in {FDivOf(a, b) : a \in {x}, b \in {y}} : TRUE

FLessOf(x, y) ==
    IF IsNaN(x) \/ IsNaN(y) THEN FALSE
    ELSE IF x = y THEN FALSE
    ELSE IF x[1] = "ninf" \/ y[1] = "pinf" THEN TRUE
    ELSE IF x[1] = "pinf" \/ y[1] = "ninf" THEN FALSE
    ELSE x[2] * y[3] < y[2] * x[3]

\* x < y on floats; FALSE when either is nan.
FLess(x, y) == CHOOSE r \in {FLessOf(a, b) : a \in {x}, b \in {y}} : TRUE

\* ------------------------------------------------------------------------
\* Return series given to the metrics engine: sequences of floats, indexed
\* by position (pandas' default RangeIndex)
\* ------------------------------------------------------------------------
RECURSIVE SumTo(_, _)
\* s[1] + ... + s[n]
SumTo(s, n) == IF n = 0 THEN Zero ELSE FAdd(SumTo(s, n - 1), s[n])

SumSeq(s) == SumTo(s, Len(s))

AllFinite(s) == \A i \in DOMAIN s : IsFinite(s[i])

\* Series.mean() of a non-empty all-finite series.
Mean(s) == Let1(s, LAMBDA v : FDiv(SumSeq(v), Rat(Len(v), 1)))

\* a - b elementwise on the union of the two indexes: a label that only one
\* side holds gives nan.
SeriesSub(a, b) ==
    LET n == IF Len(a) > Len(b) THEN Len(a) ELSE Len(b)
    IN  [i \in 1..n |-> IF i <= Len(a) /\ i <= Len(b)
                         THEN FSub(a[i], b[i]) ELSE NaN]

\* np.cov(a, b)[0, 1] of two all-finite series of one length n >= 2: the
\* sample covariance (N-1 denominator).
Cov(a, b) ==
    Let1(Mean(a), LAMBDA ma :
    Let1(Mean(b), LAMBDA mb :
    Let1([i \in 1..Len(a) |-> FMul(FSub(a[i], ma), FSub(b[i], mb))],
         LAMBDA prods :
             FDiv(SumSeq(prods), Rat(Len(a) - 1, 1)))))

\* Mutant of Var: the population variance (ddof = 0), as np.var gives it.
VarPopulation(s) ==
    IF Len(s) < 2 THEN NaN
    ELSE FMul(Cov(s, s), Rat(Len(s) - 1, Len(s)))

\* Series.var() of an all-finite series: the sample variance (ddof = 1), nan
\* below two observations.  Series.std() is its square root.
Var(s) == IF Len(s) < 2 THEN NaN ELSE Cov(s, s)

\* m / sqrt(v) * sqrt(k) for finite m, v > 0, k > 0.  The quotient is
\* irrational in general, so it is held as its signed square
\* sgn(m) * m^2 * k / v: x |-> sgn(x) * x^2 is strictly increasing, so sign,
\* zero, definedness and order are those of the quotient itself.
RootRatio(m, v, k) ==
    Let1(m, LAMBDA mean :
        FMul(Rat(Sgn(mean), 1), FMul(FDiv(FMul(mean, mean), v), Rat(k, 1))))

\* risk_free_rate / 252 with the default risk_free_rate = 0.03
RiskFreeDaily == FDiv(Rat(3, 100), Rat(TradingDays, 1))

InformationRatio(stock_returns, benchmark_returns) ==
    IF Len(stock_returns) < 2 \/ Len(benchmark_returns) < 2 THEN NaN
    ELSE Let1(SeriesSub(stock_returns, benchmark_returns),
              LAMBDA excess_returns :
         IF ~AllFinite(excess_returns) THEN NaN
         ELSE Let1(Var(excess_returns), LAMBDA excess_var :
              IF excess_var = Zero \/ IsNaN(excess_var) THEN NaN
              ELSE RootRatio(Mean(excess_returns), excess_var, 1)))

\* Mutant of SharpeRatio: the check of a zero or nan deviation is missing.
SharpeRatioUnguarded(stock_returns, benchmark_returns) ==
    IF Len(stock_returns) < 2 THEN NaN
    ELSE IF ~AllFinite(stock_returns) THEN NaN
    ELSE RootRatio(Mean([i \in DOMAIN stock_returns |->
                            FSub(stock_returns[i], RiskFreeDaily)]),
                   Var(stock_returns), TradingDays)

SharpeRatio(stock_returns, benchmark_returns) ==
    IF Len(stock_returns) < 2 THEN NaN
    ELSE IF ~AllFinite(stock_returns) THEN NaN
    ELSE Let1([i \in DOMAIN stock_returns |->
                  FSub(stock_returns[i], RiskFreeDaily)],
              LAMBDA excess_returns :
         Let1(Var(stock_returns), LAMBDA stock_var :
              IF stock_var = Zero \/ IsNaN(stock_var) THEN NaN
              ELSE RootRatio(Mean(excess_returns), stock_var, TradingDays)))

BetaCalculator(stock_returns, benchmark_returns) ==
    IF Len(stock_returns) < 2 \/ Len(benchmark_returns) < 2 THEN NaN
    ELSE IF ~(AllFinite(stock_returns) /\ AllFinite(benchmark_returns))
         THEN NaN
    \* np.cov raises on inputs of different lengths; the except gives nan
    ELSE IF Len(stock_returns) # Len(benchmark_returns) THEN NaN
    ELSE Let1(Cov(stock_returns, benchmark_returns), LAMBDA covariance :
         Let1(Var(benchmark_returns), LAMBDA benchmark_variance :
              IF benchmark_variance = Zero \/ IsNaN(benchmark_variance)
                 \/ IsNaN(covariance)
              THEN NaN
              ELSE FDiv(covariance, benchmark_variance)))

\* AlphaCalculator taking the benchmark mean, not its excess over the
\* risk-free rate, as the market premium
AlphaNoPremium(stock_returns, benchmark_returns) ==
    IF Len(stock_returns) < 2 \/ Len(benchmark_returns) < 2 THEN NaN
    ELSE IF ~(AllFinite(stock_returns) /\ AllFinite(benchmark_returns))
         THEN NaN
    ELSE Let1(BetaCalculator(stock_returns, benchmark_returns), LAMBDA beta :
         IF IsNaN(beta) THEN NaN
         ELSE LET expected_return ==
                      FAdd(RiskFreeDaily,
                           FMul(beta, Mean(benchmark_returns)))
                  alpha == FSub(Mean(stock_returns), expected_return)
              IN  FMul(alpha, Rat(TradingDays, 1)))

AlphaCalculator(stock_returns, benchmark_returns) ==
    IF Len(stock_returns) < 2 \/ Len(benchmark_returns) < 2 THEN NaN
    ELSE IF ~(AllFinite(stock_returns) /\ AllFinite(benchmark_returns))
         THEN NaN
    ELSE Let1(BetaCalculator(stock_returns, benchmark_returns), LAMBDA beta :
         IF IsNaN(beta) THEN NaN
         ELSE LET expected_return ==
                      FAdd(RiskFreeDaily,
                           FMul(beta, FSub(Mean(benchmark_returns),
                                           RiskFreeDaily)))
                  alpha == FSub(Mean(stock_returns), expected_return)
              IN  FMul(alpha, Rat(TradingDays, 1)))

\* (1 + s) elementwise
OnePlus(s) == [i \in DOMAIN s |-> FAdd(One, s[i])]

RECURSIVE ProdSkipNaTo(_, _)
\* the product of the entries of s[1..n] that are not nan
ProdSkipNaTo(s, n) ==
    IF n = 0 THEN One
    ELSE FMul(ProdSkipNaTo(s, n - 1), IF IsNaN(s[n]) THEN One ELSE s[n])

ProdSkipNa(s) == ProdSkipNaTo(s, Len(s))

\* s.cumprod().iloc[-1] for non-empty s.  cumprod skips nan (skipna=True): a
\* nan entry is left nan in place and takes no part in the running product,
\* so the last entry is nan when s ends in nan, else the product of the
\* entries that are not nan.
CumProdLast(s) ==
    Let1(s, LAMBDA v : IF IsNaN(v[Len(v)]) THEN NaN ELSE ProdSkipNa(v))

\* MetricsEngine._calculate_relative_strength: the value and whether it
\* logged its warning.
RelativeStrength(stock_returns, benchmark_returns) ==
    IF Len(stock_returns) = 0 \/ Len(benchmark_returns) = 0
    THEN [value |-> NaN, warned |-> TRUE]
    ELSE Let1(CumProdLast(OnePlus(stock_returns)), LAMBDA stock_cumulative :
         Let1(CumProdLast(OnePlus(benchmark_returns)),
              LAMBDA benchmark_cumulative :
              IF benchmark_cumulative = Zero \/ IsNaN(benchmark_cumulative)
              THEN [value |-> NaN, warned |-> TRUE]
              ELSE [value |-> FDiv(stock_cumulative, benchmark_cumulative),
                    warned |-> FALSE]))

TotalReturn(stock_returns) ==
    IF Len(stock_returns) > 0
    THEN FSub(CumProdLast(OnePlus(stock_returns)), One)
    ELSE NaN

\* ------------------------------------------------------------------------
\* MetricsEngine
\* ------------------------------------------------------------------------
SixNames == {"Information Ratio", "Sharpe Ratio", "Beta", "Alpha",
             "Relative Strength", "Total Return"}

\* MetricsEngine.__init__: the registry of calculators, by metric name.  A
\* calculator is named by its class; "Faulty" is a calculator whose
\* calculate raises and "Const" one that returns 1.0 (registered through
\* add_calculator only).
DefaultCalculators ==
    [n \in {"Information Ratio", "Sharpe Ratio", "Beta", "Alpha"} |->
        CASE n = "Information Ratio" -> "InformationRatio"
          [] n = "Sharpe Ratio" -> "SharpeRatio"
          [] n = "Beta" -> "BetaCalculator"
          [] OTHER -> "AlphaCalculator"]

\* calculator.calculate(stock_returns, benchmark_returns): whether it raised
\* and, if not, the value returned.
Calculate(calculator, stock_returns, benchmark_returns) ==
    CASE calculator = "InformationRatio" ->
            [raised |-> FALSE,
             value |-> InformationRatio(stock_returns, benchmark_returns)]
      [] calculator = "SharpeRatio" ->
            [raised |-> FALSE,
             value |-> SharpeRatio(stock_returns, benchmark_returns)]
      [] calculator = "BetaCalculator" ->
            [raised |-> FALSE,
             value |-> BetaCalculator(stock_returns, benchmark_returns)]
      [] calculator = "AlphaCalculator" ->
            [raised |-> FALSE,
             value |-> AlphaCalculator(stock_returns, benchmark_returns)]
      [] calculator = "Const" -> [raised |-> FALSE, value |-> One]
      [] OTHER -> [raised |-> TRUE, value |-> NaN]

\* Mutant of EmptyInput: `and` for `or`.
EmptyInputBoth(stock_returns, benchmark_returns) ==
    Len(stock_returns) = 0 /\ Len(benchmark_returns) = 0

\* The guard of the early return of calculate_all_metrics.
EmptyInput(stock_returns, benchmark_returns) ==
    Len(stock_returns) = 0 \/ Len(benchmark_returns) = 0

\* MetricsEngine.calculate_all_metrics with registry `calcs`:
\*   results  the returned dict (metric name -> float)
\*   log      the records logged at warning or error level: <<level, about>>
\*   invoked  the names of the metrics whose computation was run
\*   raised   whether the call raised (it has no path that does)
CalculateAllMetrics(calcs, stock_returns, benchmark_returns) ==
    IF EmptyInput(stock_returns, benchmark_returns)
    THEN [results |-> [n \in SixNames |-> NaN],
          log |-> {<<"warning", "Empty returns data provided">>},
          invoked |-> {},
          raised |-> FALSE]
    ELSE Let1([n \in DOMAIN calcs |->
                  Calculate(calcs[n], stock_returns, benchmark_returns)],
              LAMBDA out :
         Let1(RelativeStrength(stock_returns, benchmark_returns), LAMBDA rs :
         Let1(TotalReturn(stock_returns), LAMBDA tr :
             [results |->
                 [n \in DOMAIN calcs \cup {"Relative Strength", "Total Return"} |->
                     IF n = "Relative Strength" THEN rs.value
                     ELSE IF n = "Total Return" THEN tr
                     ELSE IF out[n].raised THEN NaN
                     ELSE out[n].value],
              log |->
                 (IF AllFinite(stock_returns) THEN {}
                  ELSE {<<"warning", "Stock returns contain invalid values">>})
                 \cup
                 (IF AllFinite(benchmark_returns) THEN {}
                  ELSE {<<"warning", "Benchmark returns contain invalid values">>})
                 \cup {<<"error", n>> : n \in {k \in DOMAIN calcs : out[k].raised}}
                 \cup (IF rs.warned
                       THEN {<<"warning", "Benchmark cumulative return is zero or NaN">>}
                       ELSE {}),
              invoked |-> DOMAIN calcs \cup {"Relative Strength", "Total Return"},
              raised |-> FALSE])))

\* The state of an engine before any calculate_all_metrics call.
NoOutput == [results |-> <<>>, log |-> {}, invoked |-> {}, raised |-> FALSE]

\* ------------------------------------------------------------------------
\* Optional values (None or a value)
\* ------------------------------------------------------------------------
None == [some |-> FALSE, val |-> <<>>]
Some(v) == [some |-> TRUE, val |-> v]

\* ------------------------------------------------------------------------
\* Price series: sequences of <<timestamp, price>>, timestamps increasing
\* (a pandas Series with a date index).  Timestamps are trading-day numbers.
\* ------------------------------------------------------------------------
Values(s) == [i \in DOMAIN s |-> s[i][2]]

Timestamps(s) == {s[i][1] : i \in DOMAIN s}

\* Series.dropna()
DropNa(s) == SelectSeq(s, LAMBDA e : ~IsNaN(e[2]))

RECURSIVE FilledAt(_, _)
\* the price of row i of s, or the last price before it when that is nan, as
\* pct_change takes it before dividing (fill_method='pad'); nan if none
FilledAt(s, i) ==
    IF i = 0 THEN NaN
    ELSE IF ~IsNaN(s[i][2]) THEN s[i][2]
    ELSE FilledAt(s, i - 1)

\* Series.pct_change(): same index, nan first, then p[i] / p[i-1] - 1
PctChange(s) ==
    [i \in DOMAIN s |->
        <<s[i][1],
          IF i = 1 THEN NaN
          ELSE FSub(FDiv(FilledAt(s, i), FilledAt(s, i - 1)), One)>>]

\* Series.diff(): same index, nan first, then p[i] - p[i-1]
Diff(s) ==
    [i \in DOMAIN s |->
        <<s[i][1], IF i = 1 THEN NaN ELSE FSub(s[i][2], s[i - 1][2])>>]

\* The value of series s at timestamp t, nan when s has no such timestamp.
At(s, t) ==
    IF t \in Timestamps(s)
    THEN s[CHOOSE j \in DOMAIN s : s[j][1] = t][2]
    ELSE NaN

\* pd.concat([a, b], axis=1).dropna(): the rows <<t, a[t], b[t]>> of the
\* timestamps both series hold with a value that is not nan, by timestamp.
Aligned(a, b) ==
    SelectSeq([i \in DOMAIN a |-> <<a[i][1], a[i][2], At(b, a[i][1])>>],
              LAMBDA row : ~IsNaN(row[2]) /\ ~IsNaN(row[3]))

\* .tail(n) of a sequence of rows: the last n rows; none for n = 0; for
\* n < 0 all rows but the first -n (iloc[-n:]).
TailRows(s, n) ==
    IF n = 0 THEN <<>>
    ELSE IF n > 0
         THEN SubSeq(s, IF Len(s) - n + 1 < 1 THEN 1 ELSE Len(s) - n + 1, Len(s))
    ELSE SubSeq(s, 1 - n, Len(s))

\* ------------------------------------------------------------------------
\* DataValidator
\* ------------------------------------------------------------------------
\* Characters of a ticker; a ticker is a sequence of them.
Lower == {"a", "b", "c", "d"}
Upper == {"A", "B", "C", "D"}
Whitespace == {" ", "\t"}
Chars == Lower \cup Upper \cup Whitespace

\* A list entry that is no str (None): calling .strip() on it raises.
NoTicker == <<"None">>

IsStr(t) == \A i \in DOMAIN t : t[i] \in Chars

ToUpper(c) ==
    CASE c = "a" -> "A"
      [] c = "b" -> "B"
      [] c = "c" -> "C"
      [] c = "d" -> "D"
      [] OTHER -> c

RECURSIVE LStrip(_)
LStrip(t) ==
    IF t # <<>> /\ Head(t) \in Whitespace THEN LStrip(Tail(t)) ELSE t

RECURSIVE RStrip(_)
RStrip(t) ==
    IF t # <<>> /\ t[Len(t)] \in Whitespace
    THEN RStrip(SubSeq(t, 1, Len(t) - 1))
    ELSE t

\* str.strip()
Strip(t) == RStrip(LStrip(t))

\* sanitize_ticker without the replace(" ", "")
SanitizeKeepsInterior(ticker) ==
    [i \in DOMAIN Strip(ticker) |-> ToUpper(Strip(ticker)[i])]

\* DataValidator.sanitize_ticker: ticker.strip().upper().replace(" ", "")
SanitizeTicker(ticker) ==
    SelectSeq([i \in DOMAIN Strip(ticker) |-> ToUpper(Strip(ticker)[i])],
              LAMBDA c : c # " ")

\* DataValidator.check_data_quality
CheckDataQuality(data) ==
    IF \A i \in DOMAIN data : IsNaN(data[i][2]) THEN FALSE
    ELSE IF \E i \in DOMAIN data :
                ~IsNaN(data[i][2]) /\ ~FLess(Zero, data[i][2])
         THEN FALSE
    ELSE TRUE

\* detect_anomalies reporting a label when its count reaches the threshold
DetectAnomaliesAtLeast(data) ==
    Let1(DropNa(PctChange(data)), LAMBDA returns :
    Let1(Diff(data), LAMBDA diff :
        LET extreme_returns ==
                Cardinality({i \in DOMAIN returns :
                                \/ FLess(Rat(1, 2), returns[i][2])
                                \/ FLess(returns[i][2], Rat(-1, 2))})
            flat_periods ==
                Cardinality({i \in DOMAIN diff : diff[i][2] = Zero})
        IN  (IF Len(returns) > 0 /\ extreme_returns * 100 >= Len(returns)
             THEN <<"Extreme price movements">> ELSE <<>>)
            \o
            (IF flat_periods * 10 >= Len(data)
             THEN <<"Extended flat periods">> ELSE <<>>)))

\* DataValidator.detect_anomalies: the list of labels
DetectAnomalies(data) ==
    Let1(DropNa(PctChange(data)), LAMBDA returns :
    Let1(Diff(data), LAMBDA diff :
        LET extreme_returns ==
                Cardinality({i \in DOMAIN returns :
                                \/ FLess(Rat(1, 2), returns[i][2])
                                \/ FLess(returns[i][2], Rat(-1, 2))})
            flat_periods ==
                Cardinality({i \in DOMAIN diff : diff[i][2] = Zero})
        IN  (IF Len(returns) > 0 /\ extreme_returns * 100 > Len(returns)
             THEN <<"Extreme price movements">> ELSE <<>>)
            \o
            (IF flat_periods * 10 > Len(data)
             THEN <<"Extended flat periods">> ELSE <<>>)))

\* validate_stock_data with the quality check ahead of the length check
ValidateQualityFirst(data) ==
    IF ~data.some THEN [ok |-> FALSE, reason |-> "No data"]
    ELSE IF data.val = <<>> THEN [ok |-> FALSE, reason |-> "No data"]
    ELSE IF ~CheckDataQuality(data.val)
         THEN [ok |-> FALSE, reason |-> "Poor data quality detected"]
    ELSE IF Len(data.val) < MinValidLen
         THEN [ok |-> FALSE, reason |-> "Insufficient data points"]
    ELSE IF Cardinality({i \in DOMAIN data.val : IsNaN(data.val[i][2])}) * 10
                > Len(data.val)
         THEN [ok |-> FALSE, reason |-> "Too many missing values"]
    ELSE IF Len(DetectAnomalies(data.val)) > MaxAnomalies
         THEN [ok |-> FALSE, reason |-> "Multiple anomalies detected"]
    ELSE [ok |-> TRUE, reason |-> "Valid"]

\* validate_stock_data rejecting a series with more than one anomaly
ValidateRejectsTwoAnomalies(data) ==
    IF ~data.some THEN [ok |-> FALSE, reason |-> "No data"]
    ELSE IF data.val = <<>> THEN [ok |-> FALSE, reason |-> "No data"]
    ELSE IF Len(data.val) < MinValidLen
         THEN [ok |-> FALSE, reason |-> "Insufficient data points"]
    ELSE IF Cardinality({i \in DOMAIN data.val : IsNaN(data.val[i][2])}) * 10
                > Len(data.val)
         THEN [ok |-> FALSE, reason |-> "Too many missing values"]
    ELSE IF ~CheckDataQuality(data.val)
         THEN [ok |-> FALSE, reason |-> "Poor data quality detected"]
    ELSE IF Len(DetectAnomalies(data.val)) > 1
         THEN [ok |-> FALSE, reason |-> "Multiple anomalies detected"]
    ELSE [ok |-> TRUE, reason |-> "Valid"]

\* DataValidator.validate_stock_data on an optional series: the verdict
\* (is_valid, message), the message without its formatted figures.
ValidateStockData(data) ==
    IF ~data.some THEN [ok |-> FALSE, reason |-> "No data"]
    ELSE IF data.val = <<>> THEN [ok |-> FALSE, reason |-> "No data"]
    ELSE IF Len(data.val) < MinValidLen
         THEN [ok |-> FALSE, reason |-> "Insufficient data points"]
    ELSE IF Cardinality({i \in DOMAIN data.val : IsNaN(data.val[i][2])}) * 10
                > Len(data.val)
         THEN [ok |-> FALSE, reason |-> "Too many missing values"]
    ELSE IF ~CheckDataQuality(data.val)
         THEN [ok |-> FALSE, reason |-> "Poor data quality detected"]
    ELSE IF Len(DetectAnomalies(data.val)) > MaxAnomalies
         THEN [ok |-> FALSE, reason |-> "Multiple anomalies detected"]
    ELSE [ok |-> TRUE, reason |-> "Valid"]

\* ------------------------------------------------------------------------
\* DataManager
\* ------------------------------------------------------------------------
\* What yf.download does: it raises, or returns a frame whose Close column
\* is `rows` (possibly empty, possibly holding nan).
DownloadRaises == [kind |-> "raise", rows |-> <<>>]
Frame(rows) == [kind |-> "frame", rows |-> rows]

\* _fetch_fresh_data counting the rows before dropna
FetchFreshDataRows(dl) ==
    IF dl.kind = "raise" THEN None
    ELSE IF dl.rows = <<>> THEN None
    ELSE LET price_series == DropNa(dl.rows)
         IN  IF Len(dl.rows) < MinDataPoints THEN None
             ELSE Some(price_series)

\* DataManager._fetch_fresh_data, given what yf.download did
FetchFreshData(dl) ==
    IF dl.kind = "raise" THEN None
    ELSE IF dl.rows = <<>> THEN None
    ELSE LET price_series == DropNa(dl.rows)
         IN  IF Len(price_series) < MinDataPoints THEN None
             ELSE Some(price_series)

\* Whether the sqlite read and the sqlite write of one call work; both are
\* inside a try whose except clause logs a warning.
DbWorks == [read_ok |-> TRUE, write_ok |-> TRUE]

\* DataManager._get_cached_data
GetCachedData(table, key, read_ok) ==
    IF read_ok /\ key \in DOMAIN table THEN Some(table[key]) ELSE None

\* DataManager._cache_data: INSERT OR REPLACE
CacheData(table, key, data, write_ok) ==
    IF write_ok THEN (key :> data) @@ table ELSE table

\* The ValueError of get_stock_data
DateErrorOf(start_date, end_date) ==
    [message |-> "Start date must be before end date",
     start_date |-> start_date, end_date |-> end_date]

\* get_stock_data refusing a start date after the end date only
GetStockDataEqualDates(memo, table, ticker, start_date, end_date, dl, io) ==
    LET key == <<ticker, start_date, end_date>>
    IN  IF key \in DOMAIN memo
        THEN [raised |-> FALSE, error |-> <<>>, value |-> memo[key],
              memo |-> memo, table |-> table,
              looked_up |-> FALSE, downloaded |-> FALSE, wrote |-> FALSE]
        ELSE IF start_date > end_date
        THEN [raised |-> TRUE, error |-> DateErrorOf(start_date, end_date),
              value |-> None, memo |-> memo, table |-> table,
              looked_up |-> FALSE, downloaded |-> FALSE, wrote |-> FALSE]
        ELSE LET cached_data == GetCachedData(table, key, io.read_ok)
             IN  IF cached_data.some
                 THEN [raised |-> FALSE, error |-> <<>>, value |-> cached_data,
                       memo |-> (key :> cached_data) @@ memo,
                       table |-> table,
                       looked_up |-> TRUE, downloaded |-> FALSE,
                       wrote |-> FALSE]
                 ELSE LET data == FetchFreshData(dl)
                      IN  [raised |-> FALSE, error |-> <<>>, value |-> data,
                           memo |-> (key :> data) @@ memo,
                           table |-> IF data.some
                                     THEN CacheData(table, key, data.val,
                                                    io.write_ok)
                                     ELSE table,
                           looked_up |-> TRUE, downloaded |-> TRUE,
                           wrote |-> data.some]

\* DataManager.get_stock_data(ticker, start_date, end_date) under
\* @lru_cache, with memo `memo` and table `table`, when yf.download would do
\* `dl` and the database would do `io`: whether it raised and with what, the
\* value returned, the memo and the table after the call, and whether the
\* table was looked up, yf.download was called, and _cache_data was called.
\* A call that raises is not memoized.
GetStockData(memo, table, ticker, start_date, end_date, dl, io) ==
    LET key == <<ticker, start_date, end_date>>
    IN  IF key \in DOMAIN memo
        THEN [raised |-> FALSE, error |-> <<>>, value |-> memo[key],
              memo |-> memo, table |-> table,
              looked_up |-> FALSE, downloaded |-> FALSE, wrote |-> FALSE]
        ELSE IF start_date >= end_date
        THEN [raised |-> TRUE, error |-> DateErrorOf(start_date, end_date),
              value |-> None, memo |-> memo, table |-> table,
              looked_up |-> FALSE, downloaded |-> FALSE, wrote |-> FALSE]
        ELSE LET cached_data == GetCachedData(table, key, io.read_ok)
             IN  IF cached_data.some
                 THEN [raised |-> FALSE, error |-> <<>>, value |-> cached_data,
                       memo |-> (key :> cached_data) @@ memo,
                       table |-> table,
                       looked_up |-> TRUE, downloaded |-> FALSE,
                       wrote |-> FALSE]
                 ELSE LET data == FetchFreshData(dl)
                      IN  [raised |-> FALSE, error |-> <<>>, value |-> data,
                           memo |-> (key :> data) @@ memo,
                           table |-> IF data.some
                                     THEN CacheData(table, key, data.val,
                                                    io.write_ok)
                                     ELSE table,
                           looked_up |-> TRUE, downloaded |-> TRUE,
                           wrote |-> data.some]

\* ------------------------------------------------------------------------
\* ScreenerEngine
\* ------------------------------------------------------------------------
\* Mutant of Insufficient: `<=` for `<`.
InsufficientOrEqual(aligned_data, lb) == Len(aligned_data) <= lb

\* The guard of the early return of calculate_metrics on short data.
Insufficient(aligned_data, lb) == Len(aligned_data) < lb

\* Mutant of Recent: .head(lookback) for .tail(lookback).
RecentHead(aligned_data, lb) ==
    SubSeq(aligned_data, 1, IF lb < Len(aligned_data) THEN lb ELSE Len(aligned_data))

\* The window of calculate_metrics: .tail(lookback) of the aligned rows.
Recent(aligned_data, lb) == TailRows(aligned_data, lb)

\* calculate_metrics evaluating the instrument against its own series
CalculateMetricsAgainstSelf(calcs, stock_data, bench_data, lb) ==
    IF ~stock_data.some \/ ~bench_data.some THEN None
    ELSE IF stock_data.val = <<>> \/ bench_data.val = <<>> THEN None
    ELSE Let1(DropNa(PctChange(stock_data.val)), LAMBDA stock_returns :
         Let1(DropNa(PctChange(stock_data.val)), LAMBDA benchmark_returns :
         Let1(Aligned(stock_returns, benchmark_returns), LAMBDA aligned_data :
             IF Insufficient(aligned_data, lb) THEN None
             ELSE Let1(Recent(aligned_data, lb), LAMBDA recent :
                  Let1([i \in DOMAIN recent |-> recent[i][2]], LAMBDA recent_stock :
                  Let1([i \in DOMAIN recent |-> recent[i][3]], LAMBDA recent_benchmark :
                  Let1(CalculateAllMetrics(calcs, recent_stock, recent_benchmark),
                       LAMBDA out :
                          IF out.raised THEN None ELSE Some(out.results))))))))

\* ScreenerEngine.calculate_metrics with the engine's registry `calcs`: None
\* or the dict of metrics.
CalculateMetrics(calcs, stock_data, bench_data, lb) ==
    IF ~stock_data.some \/ ~bench_data.some THEN None
    ELSE IF stock_data.val = <<>> \/ bench_data.val = <<>> THEN None
    ELSE Let1(DropNa(PctChange(stock_data.val)), LAMBDA stock_returns :
         Let1(DropNa(PctChange(bench_data.val)), LAMBDA benchmark_returns :
         Let1(Aligned(stock_returns, benchmark_returns), LAMBDA aligned_data :
             IF Insufficient(aligned_data, lb) THEN None
             ELSE Let1(Recent(aligned_data, lb), LAMBDA recent :
                  Let1([i \in DOMAIN recent |-> recent[i][2]], LAMBDA recent_stock :
                  Let1([i \in DOMAIN recent |-> recent[i][3]], LAMBDA recent_benchmark :
                  Let1(CalculateAllMetrics(calcs, recent_stock, recent_benchmark),
                       LAMBDA out :
                          IF out.raised THEN None ELSE Some(out.results))))))))

\* The Information Ratio column of a row
IROf(row) == row.metrics["Information Ratio"]

RECURSIVE Reverse(_)
Reverse(s) == IF s = <<>> THEN <<>> ELSE Reverse(Tail(s)) \o <<Head(s)>>

RECURSIVE InsertAsc(_, _)
\* row put into an ascending sequence, after the rows that are not greater
InsertAsc(row, sorted) ==
    IF sorted = <<>> THEN <<row>>
    ELSE IF FLess(IROf(row), IROf(Head(sorted)))
         THEN <<row>> \o sorted
    ELSE <<Head(sorted)>> \o InsertAsc(row, Tail(sorted))

RECURSIVE SortAsc(_)
\* argsort of the rows by Information Ratio, ascending
SortAsc(rows) ==
    IF rows = <<>> THEN <<>>
    ELSE InsertAsc(rows[Len(rows)], SortAsc(SubSeq(rows, 1, Len(rows) - 1)))

\* Mutant of OrderDefined: ascending=True.
OrderAscending(rows) == SortAsc(rows)

\* The order of the rows that are not nan, for ascending=False: pandas sorts
\* the reversed rows ascending and reverses the outcome.
OrderDefined(rows) == Reverse(SortAsc(Reverse(rows)))

\* df.sort_values('Information Ratio', ascending=False): na_position is
\* 'last', so the rows whose key is nan follow the sorted rest in their
\* original order.
SortValues(rows) ==
    OrderDefined(SelectSeq(rows, LAMBDA r : ~IsNaN(IROf(r))))
    \o SelectSeq(rows, LAMBDA r : IsNaN(IROf(r)))

\* start_date and end_date of screen_stocks: end_date = now, start_date =
\* now - (lookback + 100) days, with now the reading of datetime.now() the
\* call made, counted from the reading of the first call of the process.
DateRange(lb) == <<clock - (lb + BufferDays), clock>>

\* Mutant of AfterBenchmark: the None check is missing.
AfterBenchmarkUnchecked(data) == "loop"

\* Where screen_stocks goes once the benchmark has been fetched: it raises on
\* None and enters the loop otherwise.
AfterBenchmark(data) == IF ~data.some THEN "raised" ELSE "loop"

\* Mutant of AfterTickerError: the exception leaves screen_stocks.
AfterTickerErrorPropagates == "raised"

\* Where screen_stocks goes when processing a ticker raised: the except
\* clause logs the error and continues with the next ticker.
AfterTickerError == "loop"

\* Mutant of SkipInvalid: the verdict is ignored.
SkipNever(verdict) == FALSE

\* `if not is_valid: continue`
SkipInvalid(verdict) == ~verdict.ok

\* `if metrics:` -- a dict is true when it is not empty
Truthy(metrics) == metrics.some /\ DOMAIN metrics.val # {}

\* ------------------------------------------------------------------------
\* The metrics engine on its own: calculate_all_metrics and add_calculator
\* called on a MetricsEngine, with no screening run going on
\* ------------------------------------------------------------------------
ScreenIdle ==
    /\ pc = "idle"
    /\ tickers = <<>>
    /\ benchmark = <<>>
    /\ lookback = 0
    /\ idx = 1
    /\ results = <<>>
    /\ benchmark_data = None
    /\ report = None
    /\ error = ""
    /\ clock = 0
    /\ lru = <<>>
    /\ db = <<>>
    /\ events = <<>>

\* No DataValidator or DataManager call made yet.
NoCall == [op |-> "none"]

NoCalls ==
    /\ v_call = NoCall
    /\ d_call = NoCall
    /\ p_call = NoCall
    /\ workers = <<>>

EngineInit ==
    /\ calculators = DefaultCalculators
    /\ m_stock = <<>>
    /\ m_bench = <<>>
    /\ m_calcs = DefaultCalculators
    /\ m_out = NoOutput
    /\ m_done = FALSE

\* Return values tried: 0, 1/2, -1 (a total loss: 1 + r = 0), nan, +inf.
RetVals == {Zero, Rat(1, 2), Rat(-1, 1), NaN, PInf}

RetSeqs == UNION {[1..n -> RetVals] : n \in 0..MaxRet}

\* Finite return values tried where the registry varies.
RegVals == {Zero, Rat(1, 2)}

RegSeqs == UNION {[1..n -> RegVals] : n \in 0..MaxRet}

\* Names a calculator is registered under: one that replaces a default
\* calculator, a new one, and the two the engine computes itself.
RegNames == {"Beta", "Faulty Metric", "Relative Strength", "Total Return"}

RegCalculators == {"Faulty", "Const"}

\* engine.calculate_all_metrics(stock_returns, benchmark_returns)
CallCalculateAllMetrics(stock_returns, benchmark_returns) ==
    /\ ~m_done
    /\ m_stock' = stock_returns
    /\ m_bench' = benchmark_returns
    /\ m_calcs' = calculators
    /\ m_out' = CalculateAllMetrics(calculators, stock_returns, benchmark_returns)
    /\ m_done' = TRUE
    /\ UNCHANGED calculators
    /\ UNCHANGED screenVars
    /\ UNCHANGED callVars

\* Mutant of AddCalculator: the registry is replaced, not extended.
AddCalculatorAlone(name, calculator) ==
    /\ calculators' = (name :> calculator)
    /\ UNCHANGED <<m_stock, m_bench, m_calcs, m_out, m_done>>
    /\ UNCHANGED screenVars
    /\ UNCHANGED callVars

\* engine.add_calculator(name, calculator)
AddCalculator(name, calculator) ==
    /\ calculators' = (name :> calculator) @@ calculators
    /\ UNCHANGED <<m_stock, m_bench, m_calcs, m_out, m_done>>
    /\ UNCHANGED screenVars
    /\ UNCHANGED callVars

InitMetrics == ScreenIdle /\ EngineInit /\ NoCalls

ComputeDefault == \E s \in RetSeqs, b \in RetSeqs : CallCalculateAllMetrics(s, b)

NextMetrics == ComputeDefault

\* calculate_all_metrics of a MetricsEngine with its default calculators
SpecMetrics == InitMetrics /\ [][NextMetrics]_vars

\* Registrations precede the call whose result is examined.
Register ==
    /\ ~m_done
    /\ \E n \in RegNames, c \in RegCalculators : AddCalculator(n, c)

ComputeRegistered == \E s \in RegSeqs, b \in RegSeqs : CallCalculateAllMetrics(s, b)

NextRegistry == Register \/ ComputeRegistered

\* a MetricsEngine whose registry is changed through add_calculator
SpecRegistry == InitMetrics /\ [][NextRegistry]_vars

\* ------------------------------------------------------------------------
\* One screen_stocks call on a freshly constructed ScreenerEngine
\* ------------------------------------------------------------------------
\* n daily prices from day `first` on, cycling through `pattern`
Prices(first, n, pattern) ==
    [i \in 1..n |->
        <<first + i - 1,
          Rat(pattern[((first + i - 2) % Len(pattern)) + 1], 1)>>]

\* s with the price of its k-th row missing (nan)
WithGap(s, k) == [s EXCEPT ![k] = <<s[k][1], NaN>>]

\* What yf.download may do for a symbol:
\*   A  21 prices from day 1
\*   B  21 prices from day 1 with another pattern, or the download raises
\*   C  20 prices from day 11 (a late listing)
\*   D  13 rows from day 1, one of them without a price
\*   anything else: an empty frame
YfDownload(symbol) ==
    CASE symbol = <<"A">> -> {Frame(Prices(1, 21, <<4, 5>>))}
      [] symbol = <<"B">> -> {Frame(Prices(1, 21, <<2, 3, 4>>)), DownloadRaises}
      [] symbol = <<"C">> -> {Frame(Prices(11, 20, <<5, 4, 6>>))}
      [] symbol = <<"D">> -> {Frame(WithGap(Prices(1, 13, <<3, 4>>), 3))}
      [] OTHER -> {Frame(<<>>)}

\* The entries of the `tickers` argument
RawTickers ==
    {<<" ", "a", " ">>, <<"b">>, <<"B", " ">>, <<"c">>, <<"d">>, NoTicker}

TickerLists == UNION {[1..n -> RawTickers] : n \in 0..MaxTickers}

Benchmarks == {<<"B">>, <<"D">>}

\* -100 makes start_date = end_date; with -18, tail(lookback) drops the first
\* 18 aligned rows
Lookbacks == {0 - BufferDays, 2 - MinValidLen} \cup (0..MaxLookback)

ScreenInit == ScreenIdle /\ EngineInit /\ NoCalls

\* screen_stocks(tks, bm, lb) up to the loop: the date range and the
\* benchmark fetch
ScreenStart(tks, bm, lb) ==
    /\ pc = "idle"
    /\ \E dl \in YfDownload(bm) :
          \E got \in {GetStockData(lru, db, bm, DateRange(lb)[1],
                                   DateRange(lb)[2], dl, DbWorks)} :
              /\ tickers' = tks
              /\ benchmark' = bm
              /\ lookback' = lb
              /\ lru' = got.memo
              /\ db' = got.table
              /\ events' = events \o <<<<"get_stock_data", 0>>>>
                              \o (IF got.downloaded
                                  THEN <<<<"download", 0>>>> ELSE <<>>)
              /\ benchmark_data' = got.value
              /\ pc' = IF got.raised THEN "raised" ELSE AfterBenchmark(got.value)
              /\ error' = IF got.raised
                          THEN "Start date must be before end date"
                          ELSE IF AfterBenchmark(got.value) = "raised"
                          THEN "Cannot fetch benchmark data"
                          ELSE ""
    /\ UNCHANGED <<idx, results, report, clock>>
    /\ UNCHANGED metricVars
    /\ UNCHANGED callVars

\* One pass of the loop body of screen_stocks, for tickers[idx]
ProcessTicker ==
    /\ pc = "loop"
    /\ idx <= Len(tickers)
    /\ LET ticker == tickers[idx]
       IN  IF ~IsStr(ticker)
           THEN \* sanitize_ticker raises; the except clause takes over
                /\ events' = events \o <<<<"sanitize", idx>>>>
                /\ pc' = AfterTickerError
                /\ error' = IF AfterTickerError = "raised"
                            THEN "Error processing ticker" ELSE error
                /\ UNCHANGED <<lru, db, results>>
           ELSE \E clean_ticker \in {SanitizeTicker(ticker)} :
                \E dl \in YfDownload(clean_ticker) :
                \E got \in {GetStockData(lru, db, clean_ticker,
                                         DateRange(lookback)[1],
                                         DateRange(lookback)[2], dl,
                                         DbWorks)} :
                \E verdict \in {ValidateStockData(got.value)} :
                \E metrics \in {IF SkipInvalid(verdict) THEN None
                                ELSE CalculateMetrics(calculators, got.value,
                                                      benchmark_data, lookback)} :
                    /\ lru' = got.memo
                    /\ db' = got.table
                    /\ pc' = "loop"
                    /\ error' = error
                    /\ events' =
                          events \o <<<<"sanitize", idx>>,
                                      <<"get_stock_data", idx>>>>
                                 \o (IF got.downloaded
                                     THEN <<<<"download", idx>>>> ELSE <<>>)
                                 \o <<<<"validate", idx>>>>
                                 \o (IF SkipInvalid(verdict) THEN <<>>
                                     ELSE <<<<"calculate_metrics", idx>>>>)
                    /\ results' =
                          IF SkipInvalid(verdict) THEN results
                          ELSE IF Truthy(metrics)
                          THEN Append(results,
                                      [Ticker |-> clean_ticker,
                                       metrics |-> metrics.val,
                                       src |-> idx])
                          ELSE results
    /\ idx' = idx + 1
    /\ UNCHANGED <<tickers, benchmark, lookback, benchmark_data, report,
                   clock>>
    /\ UNCHANGED metricVars
    /\ UNCHANGED callVars

\* The end of screen_stocks: the sorted frame, or an empty one
ScreenReturn ==
    /\ pc = "loop"
    /\ idx > Len(tickers)
    /\ report' = Some(IF results # <<>> THEN SortValues(results) ELSE <<>>)
    /\ pc' = "returned"
    /\ UNCHANGED <<tickers, benchmark, lookback, idx, results,
                   benchmark_data, error, clock, lru, db, events>>
    /\ UNCHANGED metricVars
    /\ UNCHANGED callVars

Init == ScreenInit

Call == \E tks \in TickerLists, bm \in Benchmarks, lb \in Lookbacks :
            ScreenStart(tks, bm, lb)

Next == Call \/ ProcessTicker \/ ScreenReturn

Spec == Init /\ [][Next]_vars

\* screen_stocks is sequential code: a loop pass or the return that can run
\* does run.
SpecFair == Spec /\ WF_vars(ProcessTicker) /\ WF_vars(ScreenReturn)

\* ------------------------------------------------------------------------
\* screen_stocks called again on the same ScreenerEngine, with the arguments
\* of the call before
\* ------------------------------------------------------------------------
MaxRuns == 2

\* Between two calls: the locals of the call that returned are gone, the
\* DataManager of the engine keeps its memo and its table, and time has
\* passed, so that datetime.now() of the next call reads later.
Rerun ==
    /\ pc = "returned"
    /\ clock < MaxRuns - 1
    /\ clock' = clock + 1
    /\ pc' = "idle"
    /\ idx' = 1
    /\ results' = <<>>
    /\ benchmark_data' = None
    /\ report' = None
    /\ error' = ""
    /\ events' = <<>>
    /\ UNCHANGED <<tickers, benchmark, lookback, lru, db>>
    /\ UNCHANGED metricVars
    /\ UNCHANGED callVars

CallFirst == clock = 0 /\ Call

CallAgain == clock > 0 /\ ScreenStart(tickers, benchmark, lookback)

NextRuns == CallFirst \/ CallAgain \/ ProcessTicker \/ ScreenReturn \/ Rerun

SpecRuns == Init /\ [][NextRuns]_vars

\* ------------------------------------------------------------------------
\* One DataValidator call on its own: validate_stock_data on the validator a
\* ScreenerEngine built from a configuration, detect_anomalies, or
\* sanitize_ticker
\* ------------------------------------------------------------------------
MaxMissing == 4
MaxTickerLen == 3

\* ScreenerConfig.min_data_points when the configuration leaves it out
ConfigMinDataPoints == 50

\* The min_data_points of the configurations a ScreenerEngine is built from
Configs == {[min_data_points |-> n] : n \in {MinValidLen, ConfigMinDataPoints}}

\* n daily prices cycling through `pattern`, the rows 2 .. missing + 1 without
\* a price, the last price as it is, or replaced by 0 or by -1
ShapedSeries(n, pattern, missing, last) ==
    [i \in 1..n |->
        <<i,
          IF i = n /\ last = "zero" THEN Zero
          ELSE IF i = n /\ last = "negative" THEN Rat(-1, 1)
          ELSE IF 2 <= i /\ i <= missing + 1 THEN NaN
          ELSE Rat(pattern[((i - 1) % Len(pattern)) + 1], 1)>>]

PricePatterns ==
    {<<100, 101, 102, 99, 103>>, <<100>>, <<100, 200, 50>>,
     <<100, 100, 100, 100, 400>>}

\* n rising prices but one jump (+101 percent) followed by a fall of less than
\* half: one return above 0.5 in absolute value
OneSpike(n) ==
    [i \in 1..n |-> <<i, Rat(IF i = 2 THEN 201 ELSE 100 + i, 1)>>]

\* n prices, the first k steps flat, rising afterwards
Flats(n, k) ==
    [i \in 1..n |-> <<i, Rat(IF i <= k + 1 THEN 100 ELSE 100 + i, 1)>>]

\* The `data` argument of validate_stock_data: None, an empty series, a
\* series without any price, or a shaped one
ValidatedData ==
    {None, Some(<<>>), Some([i \in 1..MinValidLen |-> <<i, NaN>>])}
    \cup {Some(ShapedSeries(n, p, k, l)) :
            n \in {3, MinValidLen - 1, MinValidLen, MinValidLen + 1, 30},
            p \in PricePatterns, k \in 0..MaxMissing,
            l \in {"asis", "zero", "negative"}}

\* The `data` argument of detect_anomalies
AnomalyData ==
    {<<>>, OneSpike(100), OneSpike(101)}
    \cup {Flats(n, k) : n \in {10, 20}, k \in 0..MaxMissing}
    \cup {ShapedSeries(n, p, k, "asis") :
            n \in {1, 2, 5, 17}, p \in PricePatterns, k \in 0..MaxMissing}

\* The `ticker` argument of sanitize_ticker
TickerStrings == UNION {[1..n -> Chars] : n \in 0..MaxTickerLen}

\* ScreenerEngine(config).validator.validate_stock_data(data, ticker): the
\* constructor builds DataValidator() whatever the configuration says
CallValidateStockData ==
    /\ v_call = NoCall
    /\ \E config \in Configs, data \in ValidatedData :
        v_call' = [op |-> "validate_stock_data", config |-> config,
                   data |-> data, out |-> ValidateStockData(data)]
    /\ UNCHANGED <<screenVars, metricVars, d_call, p_call, workers>>

CallDetectAnomalies ==
    /\ v_call = NoCall
    /\ \E data \in AnomalyData :
        v_call' = [op |-> "detect_anomalies", data |-> data,
                   out |-> DetectAnomalies(data)]
    /\ UNCHANGED <<screenVars, metricVars, d_call, p_call, workers>>

CallSanitizeTicker ==
    /\ v_call = NoCall
    /\ \E ticker \in TickerStrings :
        v_call' = [op |-> "sanitize_ticker", ticker |-> ticker,
                   out |-> SanitizeTicker(ticker)]
    /\ UNCHANGED <<screenVars, metricVars, d_call, p_call, workers>>

InitValidator == ScreenIdle /\ EngineInit /\ NoCalls

NextValidator ==
    \/ CallValidateStockData
    \/ CallDetectAnomalies
    \/ CallSanitizeTicker

SpecValidator == InitValidator /\ [][NextValidator]_vars

\* ------------------------------------------------------------------------
\* get_stock_data calls on one DataManager, one after the other
\* ------------------------------------------------------------------------
MaxCalls == 2

\* The ticker and the (start_date, end_date) pairs of the calls
DataTicker == <<"A">>
DatePairs == {<<1, 2>>, <<1, 3>>, <<2, 2>>, <<3, 2>>}

\* What yf.download may do: raise, return an empty frame, return 11 rows of
\* which 2 hold no price (9 prices are left), or 11 rows of which 1 holds
\* none (10 prices are left)
Downloads ==
    {DownloadRaises, Frame(<<>>),
     Frame(WithGap(WithGap(Prices(1, 11, <<4, 5>>), 2), 7)),
     Frame(WithGap(Prices(1, 11, <<4, 5>>), 2))}

\* What the database may do during a call
DbOutcomes == [read_ok : BOOLEAN, write_ok : BOOLEAN]

\* The stock_cache table a DataManager finds at construction: empty, or with
\* the entry an earlier process left
StoredTables == {<<>>, <<DataTicker, 1, 2>> :> Prices(1, 12, <<6, 7>>)}

CallsMade == IF d_call = NoCall THEN 0 ELSE d_call.n

\* The keys for which a call made so far returned None after its fetch failed
AbsentSoFar == IF d_call = NoCall THEN {} ELSE d_call.absent

\* data_manager.get_stock_data(ticker, start_date, end_date)
CallGetStockData ==
    /\ CallsMade < MaxCalls
    /\ \E dates \in DatePairs, dl \in Downloads, io \in DbOutcomes :
       \E got \in {GetStockData(lru, db, DataTicker, dates[1], dates[2],
                                dl, io)} :
          /\ lru' = got.memo
          /\ db' = got.table
          /\ d_call' = [op |-> "get_stock_data",
                        n |-> CallsMade + 1,
                        key |-> <<DataTicker, dates[1], dates[2]>>,
                        dl |-> dl,
                        io |-> io,
                        db_ok |-> /\ io = DbWorks
                                  /\ (d_call # NoCall => d_call.db_ok),
                        memo_before |-> lru,
                        table_before |-> db,
                        absent_before |-> AbsentSoFar,
                        absent |-> AbsentSoFar \cup
                                   (IF got.downloaded /\ ~got.value.some
                                    THEN {<<DataTicker, dates[1], dates[2]>>}
                                    ELSE {}),
                        out |-> got]
    /\ UNCHANGED <<pc, tickers, benchmark, lookback, idx, results,
                   benchmark_data, report, error, clock, events>>
    /\ UNCHANGED <<metricVars, v_call, p_call, workers>>

\* DataManager(cache_dir): the memo of the process is empty, the table is
\* what the file holds
InitData ==
    /\ pc = "idle"
    /\ tickers = <<>>
    /\ benchmark = <<>>
    /\ lookback = 0
    /\ idx = 1
    /\ results = <<>>
    /\ benchmark_data = None
    /\ report = None
    /\ error = ""
    /\ clock = 0
    /\ lru = <<>>
    /\ db \in StoredTables
    /\ events = <<>>
    /\ EngineInit
    /\ NoCalls

NextData == CallGetStockData

SpecData == InitData /\ [][NextData]_vars

\* ------------------------------------------------------------------------
\* ParallelProcessor: one parallel_metric_calculation call
\* ------------------------------------------------------------------------
MaxInstruments == 2

\* The number of parameters of calculate_metrics_wrapper: the tuple `args`
WrapperParams == 1

\* The body of ParallelProcessor.calculate_metrics_wrapper on the tuple
\* (ticker, stock_data, benchmark_data, lookback): None or the dict of
\* metrics of a new MetricsEngine.  Calling pct_change on None raises inside
\* the try, which gives None.
CalculateMetricsWrapper(args) ==
    IF ~args[2].some \/ ~args[3].some THEN None
    ELSE Let1(DropNa(PctChange(args[2].val)), LAMBDA stock_returns :
         Let1(DropNa(PctChange(args[3].val)), LAMBDA benchmark_returns :
         Let1(Aligned(stock_returns, benchmark_returns), LAMBDA aligned_data :
             IF Len(aligned_data) < args[4] THEN None
             ELSE Let1(TailRows(aligned_data, args[4]), LAMBDA recent :
                  Let1(CalculateAllMetrics(
                           DefaultCalculators,
                           [i \in DOMAIN recent |-> recent[i][2]],
                           [i \in DOMAIN recent |-> recent[i][3]]),
                       LAMBDA out :
                          IF out.raised THEN None ELSE Some(out.results))))))

\* pool.starmap(calculate_metrics_wrapper, arglist): the function is called
\* with the entries of each tuple as its positional arguments; a call with
\* another number of arguments than the function has parameters raises
\* TypeError in the worker, and starmap raises it in the caller.
Starmap(arglist) ==
    IF \E k \in DOMAIN arglist : Len(arglist[k]) # WrapperParams
    THEN [raised |-> TRUE, value |-> <<>>]
    ELSE [raised |-> FALSE,
          value |-> [k \in DOMAIN arglist |->
                        CalculateMetricsWrapper(arglist[k][1])]]

\* ParallelProcessor.parallel_metric_calculation on a dict given as the
\* sequence of its items <<ticker, optional series>>: whether it raised, and
\* the returned dict (ticker -> metrics).
ParallelMetricCalculation(stock_data_dict, bench_data, lb) ==
    Let1(SelectSeq(stock_data_dict, LAMBDA item : item[2].some), LAMBDA given :
    Let1(Starmap([k \in DOMAIN given |->
                    <<given[k][1], given[k][2], bench_data, lb>>]),
         LAMBDA outcomes :
        IF outcomes.raised
        THEN [raised |-> TRUE, error |-> "TypeError", value |-> <<>>]
        ELSE LET zipped == {k \in DOMAIN stock_data_dict :
                               /\ k \in DOMAIN outcomes.value
                               /\ Truthy(outcomes.value[k])}
             IN  [raised |-> FALSE, error |-> "",
                  value |->
                     [tk \in {stock_data_dict[k][1] : k \in zipped} |->
                         outcomes.value[CHOOSE k \in zipped :
                                          stock_data_dict[k][1] = tk].val]]))

\* The series of the instruments of a dict: None, 21 prices, 21 prices with
\* another pattern, and 3 prices
InstrumentData ==
    {None, Some(Prices(1, 21, <<4, 5>>)), Some(Prices(1, 21, <<2, 3, 4>>)),
     Some(Prices(1, 3, <<5, 4, 6>>))}

InstrumentNames == {<<"A">>, <<"B">>, <<"C">>}

\* The dicts: up to MaxInstruments items under distinct tickers
StockDicts ==
    {d \in UNION {[1..n -> InstrumentNames \X InstrumentData] :
                    n \in 0..MaxInstruments} :
        \A i, j \in DOMAIN d : d[i][1] = d[j][1] => i = j}

\* processor.parallel_metric_calculation(stock_data_dict, benchmark_data,
\* lookback)
CallParallelMetricCalculation ==
    /\ p_call = NoCall
    /\ \E d \in StockDicts,
          bm \in {Some(Prices(1, 21, <<2, 3, 4>>)), Some(Prices(1, 21, <<3, 4>>))},
          lb \in {0, 2, 3, 25} :
        p_call' = [op |-> "parallel_metric_calculation",
                   stock_data_dict |-> d, benchmark_data |-> bm,
                   lookback |-> lb,
                   out |-> ParallelMetricCalculation(d, bm, lb)]
    /\ UNCHANGED <<screenVars, metricVars, v_call, d_call, workers>>

InitParallel == ScreenIdle /\ EngineInit /\ NoCalls

NextParallel == CallParallelMetricCalculation

SpecParallel == InitParallel /\ [][NextParallel]_vars

\* ------------------------------------------------------------------------
\* Threads calling get_stock_data with one key on one DataManager.  Nothing
\* in get_stock_data takes a lock: a thread runs from one of the following
\* steps to the next while the others run.
\* ------------------------------------------------------------------------
MaxThreads == 2

ThreadKey == <<DataTicker, 1, 2>>

\* What yf.download may do for a thread: raise, or return 12 prices, which
\* are not the same at every download
ThreadDownloads ==
    {DownloadRaises, Frame(Prices(1, 12, <<4, 5>>)),
     Frame(Prices(1, 12, <<5, 6, 7>>))}

\* The lru_cache wrapper and get_stock_data up to the fetch: a hit of the
\* memo returns at once; else the table is read, and its entry is what the
\* call is about to return; else the download starts.
ThreadEnter(w) ==
    /\ workers[w].pc = "start"
    /\ workers' =
          [workers EXCEPT ![w] =
              IF ThreadKey \in DOMAIN lru
              THEN [pc |-> "done", value |-> lru[ThreadKey]]
              ELSE IF GetCachedData(db, ThreadKey, TRUE).some
              THEN [pc |-> "returning",
                    value |-> GetCachedData(db, ThreadKey, TRUE)]
              ELSE [pc |-> "fetching", value |-> None]]
    /\ UNCHANGED <<screenVars, metricVars, v_call, d_call, p_call>>

\* _fetch_fresh_data returns: the download of the thread is over
ThreadFetched(w) ==
    /\ workers[w].pc = "fetching"
    /\ \E dl \in ThreadDownloads :
       \E data \in {FetchFreshData(dl)} :
          workers' = [workers EXCEPT ![w] =
                         [pc |-> IF data.some THEN "writing" ELSE "returning",
                          value |-> data]]
    /\ UNCHANGED <<screenVars, metricVars, v_call, d_call, p_call>>

\* _cache_data: INSERT OR REPLACE in one transaction
ThreadCached(w) ==
    /\ workers[w].pc = "writing"
    /\ db' = CacheData(db, ThreadKey, workers[w].value.val, TRUE)
    /\ workers' = [workers EXCEPT ![w].pc = "returning"]
    /\ UNCHANGED <<pc, tickers, benchmark, lookback, idx, results,
                   benchmark_data, report, error, clock, lru, events>>
    /\ UNCHANGED <<metricVars, v_call, d_call, p_call>>

\* get_stock_data returns and the lru_cache wrapper stores the result
ThreadReturned(w) ==
    /\ workers[w].pc = "returning"
    /\ lru' = (ThreadKey :> workers[w].value) @@ lru
    /\ workers' = [workers EXCEPT ![w].pc = "done"]
    /\ UNCHANGED <<pc, tickers, benchmark, lookback, idx, results,
                   benchmark_data, report, error, clock, db, events>>
    /\ UNCHANGED <<metricVars, v_call, d_call, p_call>>

InitThreads ==
    /\ ScreenIdle
    /\ EngineInit
    /\ v_call = NoCall
    /\ d_call = NoCall
    /\ p_call = NoCall
    /\ workers = [w \in 1..MaxThreads |-> [pc |-> "start", value |-> None]]

Enter == \E w \in DOMAIN workers : ThreadEnter(w)
Fetched == \E w \in DOMAIN workers : ThreadFetched(w)
Cached == \E w \in DOMAIN workers : ThreadCached(w)
Returned == \E w \in DOMAIN workers : ThreadReturned(w)

NextThreads == Enter \/ Fetched \/ Cached \/ Returned

SpecThreads == InitThreads /\ [][NextThreads]_vars

\* ------------------------------------------------------------------------
\* Claims about screen_stocks and calculate_metrics
\* ------------------------------------------------------------------------
\* The loop has dealt with tickers[i].
Processed(i) == pc \in {"loop", "returned"} /\ i \in 1..(idx - 1)

\* What the fetch of tickers[i] returned in this run (tickers[i] a str).
FetchedOf(i) ==
    lru[<<SanitizeTicker(tickers[i]), DateRange(lookback)[1],
          DateRange(lookback)[2]>>]

VerdictOf(i) == ValidateStockData(FetchedOf(i))

\* The aligned return pair of tickers[i] and the benchmark.
AlignedOf(i) ==
    Aligned(DropNa(PctChange(FetchedOf(i).val)),
            DropNa(PctChange(benchmark_data.val)))

HasRow(rows, i) == \E k \in DOMAIN rows : rows[k].src = i

RowOf(rows, i) == rows[CHOOSE k \in DOMAIN rows : rows[k].src = i]

DateError == "Start date must be before end date"

\* C1: when the benchmark fetch returns None, screen_stocks raises "Cannot
\* fetch benchmark data", returns no report, and nothing was sanitized,
\* fetched, validated or evaluated for any instrument.
C1_BenchmarkAbsentFailsFast ==
    (pc # "idle" /\ ~benchmark_data.some /\ error # DateError) =>
        /\ pc = "raised"
        /\ error = "Cannot fetch benchmark data"
        /\ ~report.some
        /\ results = <<>>
        /\ idx = 1
        /\ \A k \in DOMAIN events : events[k][2] = 0

\* C1 witness: a call with instruments to screen raised for its benchmark.
C1_Witness ==
    /\ pc = "raised"
    /\ error = "Cannot fetch benchmark data"
    /\ Len(tickers) > 0
    /\ <<"download", 0>> = events[Len(events)]

\* C2: once the benchmark is fetched screen_stocks never raises: whatever
\* fails for one instrument, the loop goes on to the next one, every
\* instrument before the current one has been tried, and the call always
\* returns a report.
C2_NeverRaisesAfterBenchmark ==
    /\ [](benchmark_data.some =>
            /\ pc \in {"loop", "returned"}
            /\ error = ""
            /\ \A i \in 1..(idx - 1) :
                  \E k \in DOMAIN events : events[k] = <<"sanitize", i>>
            /\ pc = "returned" => (report.some /\ idx = Len(tickers) + 1))
    /\ (benchmark_data.some ~> (pc = "returned" /\ report.some))

\* C2 witness: the call returned a report with a row of an instrument that
\* came after one whose processing raised.
C2_Witness ==
    /\ pc = "returned"
    /\ \E i, j \in 1..Len(tickers) :
          /\ i < j
          /\ ~IsStr(tickers[i])
          /\ HasRow(report.val, j)

\* C3: in every state, no row of the results or of the report comes from an
\* instrument whose validation failed in this run, or bears the label of one.
C3_NoRowOfInvalidInstrument ==
    \A rows \in {results, report.val} :
        \A k \in DOMAIN rows :
            /\ Processed(rows[k].src)
            /\ IsStr(tickers[rows[k].src])
            /\ VerdictOf(rows[k].src).ok
            /\ \A i \in 1..(idx - 1) :
                  (IsStr(tickers[i]) /\ SanitizeTicker(tickers[i]) = rows[k].Ticker)
                      => VerdictOf(i).ok

\* C3 witness: a report with a row, in a run where an instrument with
\* fetched data failed validation.
C3_Witness ==
    /\ pc = "returned"
    /\ report.val # <<>>
    /\ \E i \in 1..Len(tickers) :
          IsStr(tickers[i]) /\ FetchedOf(i).some /\ ~VerdictOf(i).ok

\* C4: the returned report has a row for an instrument exactly when its
\* fetch returned data, the data passed validation and the aligned return
\* pair has at least `lookback` observations; the row bears the sanitized
\* identifier, and no row comes from anything else.
C4_RowIffFetchedValidSufficient ==
    pc = "returned" =>
        /\ \A i \in 1..Len(tickers) :
              /\ HasRow(report.val, i) <=>
                    /\ IsStr(tickers[i])
                    /\ FetchedOf(i).some
                    /\ VerdictOf(i).ok
                    /\ Len(AlignedOf(i)) >= lookback
              /\ HasRow(report.val, i) =>
                    RowOf(report.val, i).Ticker = SanitizeTicker(tickers[i])
        /\ \A k, l \in DOMAIN report.val :
              /\ report.val[k].src \in 1..Len(tickers)
              /\ report.val[k].src = report.val[l].src => k = l

\* C4 witness: a report that holds the row of one instrument and none for
\* another whose data was fetched and valid but whose aligned pair is
\* shorter than the lookback.
C4_Witness ==
    /\ pc = "returned"
    /\ \E i, j \in 1..Len(tickers) :
          /\ IsStr(tickers[i])
          /\ FetchedOf(i).some
          /\ VerdictOf(i).ok
          /\ Len(AlignedOf(i)) < lookback
          /\ ~HasRow(report.val, i)
          /\ HasRow(report.val, j)

\* C5: the rows of a returned report are in non-increasing order of
\* Information Ratio, and every row whose Information Ratio is nan comes
\* after every row whose Information Ratio is defined.
C5_ReportSortedNaNLast ==
    pc = "returned" =>
        \A k, l \in DOMAIN report.val :
            k < l =>
                /\ ~FLess(IROf(report.val[k]), IROf(report.val[l]))
                /\ IsNaN(IROf(report.val[k])) => IsNaN(IROf(report.val[l]))

\* C5 witness: a report whose sorting moved a row: the results were
\* collected in strictly increasing order of Information Ratio.
C5_Witness ==
    /\ pc = "returned"
    /\ Len(results) >= 2
    /\ FLess(IROf(results[1]), IROf(results[2]))
    /\ report.val[1] = results[2]

\* C5 second witness: a report with a nan row, collected first, after a
\* defined one.
C5_WitnessNaN ==
    /\ pc = "returned"
    /\ Len(results) >= 2
    /\ IsNaN(IROf(results[1]))
    /\ ~IsNaN(IROf(results[2]))
    /\ report.val[1] = results[2]

\* The last n rows of a sequence of at least n rows
LastN(rows, n) == [i \in 1..n |-> rows[Len(rows) - n + i]]

\* C6: for lookback >= 1, calculate_metrics gives a result only from an
\* aligned return pair of at least `lookback` observations, computed over
\* exactly its last `lookback` observations; a pair of exactly `lookback`
\* observations is used, a shorter one gives None (no row).
C6_WindowIsLastLookback ==
    lookback >= 1 =>
        \A i \in 1..(idx - 1) :
            (Processed(i) /\ IsStr(tickers[i]) /\ VerdictOf(i).ok) =>
                \A aligned \in {AlignedOf(i)} :
                    IF Len(aligned) >= lookback
                    THEN \A window \in {LastN(aligned, lookback)} :
                            /\ HasRow(results, i)
                            /\ RowOf(results, i).metrics =
                                  CalculateAllMetrics(
                                      calculators,
                                      [k \in 1..lookback |-> window[k][2]],
                                      [k \in 1..lookback |-> window[k][3]]).results
                    ELSE ~HasRow(results, i)

\* C6 witness: metrics were computed from an aligned pair of exactly
\* `lookback` observations, and from a longer one.
C6_Witness ==
    /\ lookback >= 1
    /\ \E i, j \in 1..(idx - 1) :
          /\ Processed(i) /\ Processed(j)
          /\ HasRow(results, i) /\ HasRow(results, j)
          /\ Len(AlignedOf(i)) = lookback
          /\ Len(AlignedOf(j)) > lookback

\* ------------------------------------------------------------------------
\* Claims about the metrics engine
\* ------------------------------------------------------------------------

\* C7: for every input, the result of calculate_all_metrics with the default
\* calculators has exactly the six metric names as keys and every value is a
\* finite number or nan, never infinite.
C7_SixKeysFiniteOrNaN ==
    m_done =>
        /\ DOMAIN m_out.results = SixNames
        /\ \A n \in DOMAIN m_out.results :
              IsFinite(m_out.results[n]) \/ IsNaN(m_out.results[n])

\* C8: if either input is empty, calculate_all_metrics returns the six
\* metrics all nan, runs no calculator, and logs the condition at warning
\* level and nothing at error level.
C8_EmptyInputAllUndefined ==
    (m_done /\ (m_stock = <<>> \/ m_bench = <<>>)) =>
        /\ DOMAIN m_out.results = SixNames
        /\ \A n \in SixNames : IsNaN(m_out.results[n])
        /\ m_out.invoked = {}
        /\ \E e \in m_out.log : e[1] = "warning"
        /\ \A e \in m_out.log : e[1] # "error"
        /\ ~m_out.raised

\* C8 witness: a call with an empty instrument series and a non-empty
\* benchmark series has been made.
C8_Witness == m_done /\ m_stock = <<>> /\ m_bench # <<>>

\* C9: a non-finite value anywhere in the instrument series makes all six
\* metrics nan; one anywhere in the benchmark series makes Information
\* Ratio, Beta, Alpha and Relative Strength nan.
C9_NonFiniteInputUndefined ==
    m_done =>
        /\ ~AllFinite(m_stock) =>
              \A n \in SixNames : IsNaN(m_out.results[n])
        /\ ~AllFinite(m_bench) =>
              \A n \in {"Information Ratio", "Beta", "Alpha", "Relative Strength"} :
                  IsNaN(m_out.results[n])

\* C10: when a calculator raises during calculate_all_metrics, the call does
\* not raise, the failure is logged as an error, that metric is nan, and
\* every other metric has the value it has without that calculator.
C10_FailureIsolated ==
    (m_done /\ ~EmptyInput(m_stock, m_bench)) =>
        \A n \in DOMAIN m_calcs :
            Calculate(m_calcs[n], m_stock, m_bench).raised =>
                LET without == [k \in DOMAIN m_calcs \ {n} |-> m_calcs[k]]
                    base == CalculateAllMetrics(without, m_stock, m_bench).results
                IN  /\ ~m_out.raised
                    /\ <<"error", n>> \in m_out.log
                    /\ n \in DOMAIN m_out.results
                    /\ IsNaN(m_out.results[n])
                    /\ \A k \in DOMAIN m_out.results \ {n} :
                          k \in DOMAIN base /\ m_out.results[k] = base[k]

\* All entries of s are equal: what a zero standard deviation means.
Constant(s) == \A i, j \in DOMAIN s : s[i] = s[j]

\* C11: for finite non-empty inputs the call does not fail and Information
\* Ratio is nan below 2 observations or when the excess returns do not
\* vary, Beta is nan below 2 observations or when the benchmark does not
\* vary, Sharpe Ratio is nan below 2 observations or when the instrument
\* does not vary; for a single observation and for identical constant
\* series Total Return is a finite number.
C11_DegenerateVarianceUndefined ==
    (/\ m_done
     /\ ~EmptyInput(m_stock, m_bench)
     /\ AllFinite(m_stock) /\ AllFinite(m_bench)) =>
        LET few == Len(m_stock) < 2 \/ Len(m_bench) < 2
            same_len == Len(m_stock) = Len(m_bench)
            excess == [i \in DOMAIN m_stock |-> FSub(m_stock[i], m_bench[i])]
        IN  /\ ~m_out.raised
            /\ (few \/ (same_len /\ Constant(excess)))
                  => IsNaN(m_out.results["Information Ratio"])
            /\ (few \/ Constant(m_bench)) => IsNaN(m_out.results["Beta"])
            /\ (Len(m_stock) < 2 \/ Constant(m_stock))
                  => IsNaN(m_out.results["Sharpe Ratio"])
            /\ ((Len(m_stock) = 1 /\ Len(m_bench) = 1)
                 \/ (m_stock = m_bench /\ Constant(m_stock)))
                  => IsFinite(m_out.results["Total Return"])

\* C11 witness: identical constant series of two observations.
C11_Witness ==
    /\ m_done
    /\ m_stock = <<Rat(1, 2), Rat(1, 2)>>
    /\ m_bench = m_stock
    /\ IsNaN(m_out.results["Sharpe Ratio"])

\* The sum of a[i] * b[i]
RECURSIVE SumProd(_, _, _)
SumProd(a, b, n) ==
    IF n = 0 THEN Zero ELSE FAdd(SumProd(a, b, n - 1), FMul(a[n], b[n]))

\* The sample covariance in its sum form:
\* (sum a[i] b[i] - (sum a[i]) (sum b[i]) / n) / (n - 1)
SampleCov(a, b) ==
    FDiv(FSub(SumProd(a, b, Len(a)),
              FDiv(FMul(SumSeq(a), SumSeq(b)), Rat(Len(a), 1))),
         Rat(Len(a) - 1, 1))

\* C12: for finite series of one length >= 2 with a benchmark that varies,
\* Beta is a finite number and Beta * variance(benchmark) is the covariance
\* of the two series, both with the N-1 denominator.
C12_BetaTimesVarianceIsCovariance ==
    (/\ m_done
     /\ Len(m_stock) = Len(m_bench) /\ Len(m_stock) >= 2
     /\ AllFinite(m_stock) /\ AllFinite(m_bench)
     /\ ~Constant(m_bench)) =>
        /\ IsFinite(m_out.results["Beta"])
        /\ FMul(m_out.results["Beta"], SampleCov(m_bench, m_bench))
              = SampleCov(m_stock, m_bench)

\* C12 witness: a Beta that is neither 0 nor 1.
C12_Witness ==
    /\ m_done
    /\ m_stock = <<Rat(-1, 1), Rat(1, 2)>>
    /\ m_bench = <<Zero, Rat(1, 2)>>
    /\ m_out.results["Beta"] = Rat(3, 1)

\* C13: a calculator registered under a new name is reported under that
\* name with its own result, the default calculators stay registered, and
\* every other metric has the value it has without that registration.
C13_RegistrationLeavesOthers ==
    (m_done /\ ~EmptyInput(m_stock, m_bench)) =>
        /\ DOMAIN DefaultCalculators \subseteq DOMAIN m_calcs
        /\ \A n \in DOMAIN m_calcs \ SixNames :
              LET without == [k \in DOMAIN m_calcs \ {n} |-> m_calcs[k]]
                  base == CalculateAllMetrics(without, m_stock, m_bench).results
                  own == Calculate(m_calcs[n], m_stock, m_bench)
              IN  /\ n \in DOMAIN m_out.results
                  /\ ~own.raised => m_out.results[n] = own.value
                  /\ DOMAIN m_out.results \ {n} = DOMAIN base
                  /\ \A k \in DOMAIN base : m_out.results[k] = base[k]

\* C13 witness: a calculator that returns 1.0 registered under a new name
\* and reported.
C13_Witness ==
    /\ m_done
    /\ ~EmptyInput(m_stock, m_bench)
    /\ "Faulty Metric" \in DOMAIN m_calcs
    /\ m_calcs["Faulty Metric"] = "Const"
    /\ m_out.results["Faulty Metric"] = One

\* ------------------------------------------------------------------------
\* Claims about DataValidator
\* ------------------------------------------------------------------------
\* The number of rows of s without a price.
MissingCount(s) == Len(SelectSeq(s, LAMBDA e : IsNaN(e[2])))

\* x is a price that is zero or below.
NonPositive(x) == x = NInf \/ (x[1] = "fin" /\ x[2] <= 0)

\* The number of the first check an optional series fails, 0 when none.
FirstFailing(data) ==
    IF ~data.some \/ data.val = <<>> THEN 1
    ELSE IF Len(data.val) < MinValidLen THEN 2
    ELSE IF MissingCount(data.val) * 10 > Len(data.val) THEN 3
    ELSE IF \/ MissingCount(data.val) = Len(data.val)
            \/ \E i \in DOMAIN data.val : NonPositive(data.val[i][2]) THEN 4
    ELSE IF Len(DetectAnomalies(data.val)) > 3 THEN 5
    ELSE 0

ReasonOfCheck(k) ==
    CASE k = 1 -> "No data"
      [] k = 2 -> "Insufficient data points"
      [] k = 3 -> "Too many missing values"
      [] k = 4 -> "Poor data quality detected"
      [] k = 5 -> "Multiple anomalies detected"
      [] OTHER -> "Valid"

\* C14: validate_stock_data applies its checks in the order none/empty,
\* length below the minimum, more than 10% missing, all undefined or a value
\* <= 0, more than 3 anomalies, and returns the reason of the first check
\* that fails; it returns (True, 'Valid') exactly when none fails.  A series
\* with exactly 10% missing passes the third check, and a 3-point series is
\* rejected as insufficient whatever it holds.
C14_FirstFailingCheckDecides ==
    v_call.op = "validate_stock_data" =>
        \A failing \in {FirstFailing(v_call.data)} :
            /\ v_call.out.reason = ReasonOfCheck(failing)
            /\ v_call.out.ok <=> failing = 0
            /\ v_call.out.ok <=> v_call.out.reason = "Valid"
            /\ (/\ v_call.data.some
                /\ Len(v_call.data.val) >= MinValidLen
                /\ MissingCount(v_call.data.val) * 10 = Len(v_call.data.val))
               => v_call.out.reason # "Too many missing values"
            /\ (v_call.data.some /\ Len(v_call.data.val) = 3)
               => v_call.out = [ok |-> FALSE,
                                reason |-> "Insufficient data points"]

\* C14 witness: a 20-point series with exactly two prices missing was found
\* valid.
C14_Witness ==
    /\ v_call.op = "validate_stock_data"
    /\ v_call.data.some
    /\ Len(v_call.data.val) = 20
    /\ MissingCount(v_call.data.val) = 2
    /\ v_call.out = [ok |-> TRUE, reason |-> "Valid"]

\* C14 witness of the order: a 3-point series holding a price of zero was
\* rejected as insufficient.
C14_WitnessShort ==
    /\ v_call.op = "validate_stock_data"
    /\ v_call.data.some
    /\ Len(v_call.data.val) = 3
    /\ \E i \in DOMAIN v_call.data.val : v_call.data.val[i][2] = Zero
    /\ v_call.out.reason = "Insufficient data points"

\* C15: the length below which validate_stock_data reports insufficient data
\* is the min_data_points of the configuration the engine was built from.
C15_MinimumIsConfigured ==
    (/\ v_call.op = "validate_stock_data"
     /\ v_call.data.some
     /\ v_call.data.val # <<>>) =>
        (v_call.out.reason = "Insufficient data points"
            <=> Len(v_call.data.val) < v_call.config.min_data_points)

\* The last price of s at or before row i, nan when there is none.
LastPriceAt(s, i) ==
    LET known == {j \in 1..i : ~IsNaN(s[j][2])}
    IN  IF known = {} THEN NaN
        ELSE s[CHOOSE j \in known : \A m \in known : m <= j][2]

\* The single-step return into row i >= 2 of s.
StepReturn(s, i) ==
    FSub(FDiv(LastPriceAt(s, i), LastPriceAt(s, i - 1)), One)

ReturnSteps(s) == {i \in 2..Len(s) : ~IsNaN(StepReturn(s, i))}

ExtremeSteps(s) ==
    {i \in ReturnSteps(s) :
        \/ FLess(Rat(1, 2), StepReturn(s, i))
        \/ FLess(StepReturn(s, i), Rat(-1, 2))}

FlatSteps(s) ==
    {i \in 2..Len(s) : ~IsNaN(s[i][2]) /\ s[i][2] = s[i - 1][2]}

Labels(list) == {list[k] : k \in DOMAIN list}

\* C16: detect_anomalies reports 'Extreme price movements' exactly when the
\* returns above 0.5 in absolute value are more than 1% of the returns, and
\* 'Extended flat periods' exactly when the steps equal to their predecessor
\* are more than 10% of the length of the series; it reports no other label.
C16_AnomalyLabels ==
    v_call.op = "detect_anomalies" =>
        \A s \in {v_call.data} :
            /\ "Extreme price movements" \in Labels(v_call.out)
                <=> Cardinality(ExtremeSteps(s)) * 100
                        > Cardinality(ReturnSteps(s))
            /\ "Extended flat periods" \in Labels(v_call.out)
                <=> Cardinality(FlatSteps(s)) * 10 > Len(s)
            /\ Labels(v_call.out)
                \subseteq {"Extreme price movements", "Extended flat periods"}
            /\ Len(v_call.out) = Cardinality(Labels(v_call.out))

\* C16 witness: one extreme return among 100 is 1%, not more, and puts no
\* label on a series of 101 rising prices.
C16_Witness ==
    /\ v_call.op = "detect_anomalies"
    /\ Len(v_call.data) = 101
    /\ Cardinality(ExtremeSteps(v_call.data)) = 1
    /\ v_call.out = <<>>

\* C16 witness of both labels on one series.
C16_WitnessBoth ==
    /\ v_call.op = "detect_anomalies"
    /\ v_call.out = <<"Extreme price movements", "Extended flat periods">>

\* The positions of ticker whose character sanitize_ticker keeps: not a
\* space, and not in the whitespace the ticker starts or ends with.
Kept(ticker) ==
    {i \in DOMAIN ticker :
        /\ ticker[i] # " "
        /\ \E j \in 1..i : ticker[j] \notin Whitespace
        /\ \E j \in i..Len(ticker) : ticker[j] \notin Whitespace}

\* The k-th smallest element of a set of numbers.
KthOf(S, k) == CHOOSE i \in S : Cardinality({j \in S : j < i}) = k - 1

\* C17: sanitize_ticker drops the whitespace around the ticker and every
\* space inside it and puts the rest in upper case; its output holds no space
\* and no lower-case letter, ' a ' gives 'A', and sanitizing the output again
\* changes nothing.
C17_SanitizeNormalises ==
    v_call.op = "sanitize_ticker" =>
        /\ Len(v_call.out) = Cardinality(Kept(v_call.ticker))
        /\ \A k \in DOMAIN v_call.out :
            v_call.out[k] = ToUpper(v_call.ticker[KthOf(Kept(v_call.ticker), k)])
        /\ \A k \in DOMAIN v_call.out :
            v_call.out[k] # " " /\ v_call.out[k] \notin Lower
        /\ v_call.ticker = <<" ", "a", " ">> => v_call.out = <<"A">>
        /\ SanitizeTicker(v_call.out) = v_call.out

\* C17 witness: a ticker with lower-case letters around a space, with
\* whitespace before it, came out as its letters in upper case.
C17_Witness ==
    /\ v_call.op = "sanitize_ticker"
    /\ Len(v_call.ticker) = 3
    /\ v_call.ticker[1] \in Whitespace
    /\ v_call.ticker[2] \in Lower
    /\ v_call.ticker[3] = " "
    /\ v_call.out = <<ToUpper(v_call.ticker[2])>>

\* ------------------------------------------------------------------------
\* Claims about DataManager
\* ------------------------------------------------------------------------
\* The rows of a download that hold a price.
NonMissing(rows) == SelectSeq(rows, LAMBDA e : ~IsNaN(e[2]))

\* C18: as long as the database works, a get_stock_data call whose key has
\* an entry in the table returns that entry without download or write, and
\* a call whose key has none downloads, writes the series under the key
\* exactly when the fetch returned one, and returns what the fetch returned.
C18_CacheThrough ==
    (d_call.op = "get_stock_data" /\ ~d_call.out.raised /\ d_call.db_ok) =>
        IF d_call.key \in DOMAIN d_call.table_before
        THEN /\ d_call.out.value = Some(d_call.table_before[d_call.key])
             /\ ~d_call.out.downloaded
             /\ ~d_call.out.wrote
             /\ db = d_call.table_before
        ELSE /\ d_call.out.downloaded
             /\ d_call.out.value = FetchFreshData(d_call.dl)
             /\ d_call.out.wrote <=> d_call.out.value.some
             /\ db = IF d_call.out.value.some
                     THEN (d_call.key :> d_call.out.value.val)
                            @@ d_call.table_before
                     ELSE d_call.table_before

\* C19: a get_stock_data call whose start date is not before its end date
\* raises an error naming both dates, without any table lookup, download or
\* write; memo and table are as before the call.
C19_BadDatesRaiseFirst ==
    (d_call.op = "get_stock_data" /\ d_call.key[2] >= d_call.key[3]) =>
        /\ d_call.out.raised
        /\ d_call.out.error.start_date = d_call.key[2]
        /\ d_call.out.error.end_date = d_call.key[3]
        /\ ~d_call.out.looked_up
        /\ ~d_call.out.downloaded
        /\ ~d_call.out.wrote
        /\ db = d_call.table_before
        /\ lru = d_call.memo_before
        /\ \A key \in DOMAIN lru \cup DOMAIN db : key[2] < key[3]

\* C19 witness: a call with equal dates raised on a DataManager whose table
\* holds an entry.
C19_Witness ==
    /\ d_call.op = "get_stock_data"
    /\ d_call.key[2] = d_call.key[3]
    /\ d_call.out.raised
    /\ db # <<>>

\* C20: a get_stock_data call with dates in order does not raise, whatever
\* the download and the database do.  A download that raised, was empty or
\* left fewer than min_data_points prices gives None; a series that comes
\* from a download holds no missing value and at least min_data_points
\* entries.  A failed read makes the call go on as on a miss, and a failed
\* write leaves the returned series and the table as they are.
C20_FailuresAbsorbed ==
    (d_call.op = "get_stock_data" /\ d_call.key[2] < d_call.key[3]) =>
        /\ ~d_call.out.raised
        /\ (/\ d_call.out.downloaded
            /\ \/ d_call.dl.kind = "raise"
               \/ d_call.dl.rows = <<>>
               \/ Len(NonMissing(d_call.dl.rows)) < MinDataPoints)
           => d_call.out.value = None
        /\ (d_call.out.downloaded /\ d_call.out.value.some)
           => /\ d_call.out.value.val = NonMissing(d_call.dl.rows)
              /\ \A i \in DOMAIN d_call.out.value.val :
                    ~IsNaN(d_call.out.value.val[i][2])
              /\ Len(d_call.out.value.val) >= MinDataPoints
        /\ (~d_call.io.read_ok /\ d_call.key \notin DOMAIN d_call.memo_before)
           => d_call.out.downloaded
        /\ (~d_call.io.write_ok /\ d_call.out.wrote)
           => db = d_call.table_before

\* C20 witness: the read and the write of the database both failed during a
\* call that returned the downloaded series.
C20_Witness ==
    /\ d_call.op = "get_stock_data"
    /\ ~d_call.io.read_ok
    /\ ~d_call.io.write_ok
    /\ d_call.key \in DOMAIN d_call.table_before
    /\ d_call.out.wrote
    /\ d_call.out.value.some
    /\ Len(d_call.out.value.val) = MinDataPoints

\* C20 witness of a download that raised.
C20_WitnessRaise ==
    /\ d_call.op = "get_stock_data"
    /\ d_call.out.downloaded
    /\ d_call.dl.kind = "raise"
    /\ ~d_call.out.raised
    /\ d_call.out.value = None

\* ------------------------------------------------------------------------
\* Further claims about DataValidator
\* ------------------------------------------------------------------------
\* An optional series passes the checks on none/empty, length, missing
\* fraction and quality.
PassesFirstFour(data) ==
    /\ data.some
    /\ Len(data.val) >= MinValidLen
    /\ MissingCount(data.val) * 10 <= Len(data.val)
    /\ MissingCount(data.val) < Len(data.val)
    /\ \A i \in DOMAIN data.val : ~NonPositive(data.val[i][2])

\* C24: detect_anomalies returns at most two labels, so no verdict of
\* validate_stock_data carries 'Multiple anomalies detected', and a series
\* that passes the first four checks is 'Valid', also one with extreme
\* price movements and extended flat periods.
C24_AnomalyCheckNeverFails ==
    /\ v_call.op = "detect_anomalies" => Len(v_call.out) <= 2
    /\ v_call.op = "validate_stock_data" =>
        /\ v_call.out.reason # "Multiple anomalies detected"
        /\ PassesFirstFour(v_call.data)
            => v_call.out = [ok |-> TRUE, reason |-> "Valid"]

\* C24 witness: a series with both anomalies was found valid.
C24_Witness ==
    /\ v_call.op = "validate_stock_data"
    /\ v_call.data.some
    /\ PassesFirstFour(v_call.data)
    /\ Cardinality(ExtremeSteps(v_call.data.val)) * 100
            > Cardinality(ReturnSteps(v_call.data.val))
    /\ Cardinality(FlatSteps(v_call.data.val)) * 10 > Len(v_call.data.val)
    /\ v_call.out = [ok |-> TRUE, reason |-> "Valid"]

\* ------------------------------------------------------------------------
\* Further claims about MetricsEngine
\* ------------------------------------------------------------------------
\* The names registered through add_calculator in a registry.
RegisteredNames(calcs) ==
    {n \in DOMAIN calcs :
        n \notin DOMAIN DefaultCalculators \/ calcs[n] # DefaultCalculators[n]}

\* C29: the keys of the result of calculate_all_metrics are the six built-in
\* names and every registered name, and the value under a registered name is
\* what the calculator registered under it returns (nan when it raises).
C29_RegisteredNamesReported ==
    m_done =>
        /\ DOMAIN m_out.results = SixNames \cup DOMAIN m_calcs
        /\ \A n \in RegisteredNames(m_calcs) :
              \A own \in {Calculate(m_calcs[n], m_stock, m_bench)} :
                  m_out.results[n] = IF own.raised THEN NaN ELSE own.value

\* The instrument series of the call is its benchmark series, finite, of at
\* least 2 observations that are not all equal.
SelfBenchmark ==
    /\ m_done
    /\ m_stock = m_bench
    /\ Len(m_stock) >= 2
    /\ AllFinite(m_stock)
    /\ ~Constant(m_stock)

\* C30 as stated: an instrument evaluated against itself has Beta 1, Alpha 0
\* and Relative Strength 1, and no Information Ratio.
C30_SelfBenchmarkUnit ==
    SelfBenchmark =>
        /\ m_out.results["Beta"] = One
        /\ m_out.results["Alpha"] = Zero
        /\ m_out.results["Relative Strength"] = One
        /\ IsNaN(m_out.results["Information Ratio"])

\* C30 amended: an instrument evaluated against itself has Beta 1, Alpha 0
\* and no Information Ratio; its Relative Strength is 1 unless one of the
\* returns is -1 (a total loss), which makes the cumulative product of the
\* benchmark zero and the Relative Strength nan.
C30_SelfBenchmarkUnlessTotalLoss ==
    SelfBenchmark =>
        /\ m_out.results["Beta"] = One
        /\ m_out.results["Alpha"] = Zero
        /\ IsNaN(m_out.results["Information Ratio"])
        /\ m_out.results["Relative Strength"] =
              IF \E i \in DOMAIN m_bench : m_bench[i] = Rat(-1, 1)
              THEN NaN ELSE One

\* C30 witness: the series 0, 1/2 was evaluated against itself.
C30_Witness ==
    /\ SelfBenchmark
    /\ m_stock = <<Zero, Rat(1, 2)>>
    /\ m_out.results["Relative Strength"] = One
    /\ m_out.results["Beta"] = One

\* C30 witness of the total loss: a series holding -1 evaluated against
\* itself has no Relative Strength.
C30_WitnessTotalLoss ==
    /\ SelfBenchmark
    /\ m_stock = <<Rat(-1, 1), Rat(1, 2)>>
    /\ IsNaN(m_out.results["Relative Strength"])
    /\ m_out.results["Beta"] = One

\* ------------------------------------------------------------------------
\* Further claims about screen_stocks
\* ------------------------------------------------------------------------
\* C25: the rows of a report returned by screen_stocks carry pairwise
\* distinct labels.
C25_RowLabelsDistinct ==
    report.some =>
        \A i, j \in DOMAIN report.val :
            report.val[i].Ticker = report.val[j].Ticker => i = j

\* C26: a screen_stocks call with lookback <= 0 adds no row.
C26_NoRowWithoutWindow ==
    lookback <= 0 => results = <<>>

\* The key of the benchmark fetch of the run.
BenchmarkKey ==
    <<benchmark, DateRange(lookback)[1], DateRange(lookback)[2]>>

\* C22: in a screen_stocks run the benchmark is fetched once, ahead of
\* every instrument, and never downloaded again; the series the fetch
\* returned is the one every row was evaluated against, and no loop pass
\* changes it.
C22_BenchmarkFetchedOnceAndShared ==
    /\ [](pc \in {"loop", "returned"} =>
            /\ events[1] = <<"get_stock_data", 0>>
            /\ \A k \in DOMAIN events :
                  /\ events[k] = <<"get_stock_data", 0>> => k = 1
                  /\ events[k] = <<"download", 0>> => k = 2
                  /\ (events[k][1] = "download" /\ events[k][2] > 0)
                        => SanitizeTicker(tickers[events[k][2]]) # benchmark
            /\ benchmark_data.some
            /\ benchmark_data = lru[BenchmarkKey]
            /\ \A k \in DOMAIN results :
                  \A window \in {TailRows(AlignedOf(results[k].src), lookback)} :
                      results[k].metrics =
                          CalculateAllMetrics(
                              calculators,
                              [n \in DOMAIN window |-> window[n][2]],
                              [n \in DOMAIN window |-> window[n][3]]).results)
    /\ [][(pc = "loop" \/ pc = "returned")
              => (benchmark_data' = benchmark_data)]_vars

\* C22 witness: a report of two rows, for two instruments with different
\* series.
C22_Witness ==
    /\ pc = "returned"
    /\ Len(report.val) = 2
    /\ report.val[1].Ticker # report.val[2].Ticker

\* ------------------------------------------------------------------------
\* Further claims about DataManager
\* ------------------------------------------------------------------------
\* C28: a get_stock_data call for a key for which an earlier call returned
\* None after a failed fetch downloads again, and returns the series when
\* the fetch gives one.
C28_AbsentNotRemembered ==
    (d_call.op = "get_stock_data" /\ d_call.key \in d_call.absent_before) =>
        /\ d_call.out.downloaded
        /\ FetchFreshData(d_call.dl).some
              => d_call.out.value = FetchFreshData(d_call.dl)

\* ------------------------------------------------------------------------
\* Claims about ParallelProcessor
\* ------------------------------------------------------------------------
\* C23: parallel_metric_calculation returns, under the ticker of every item
\* whose data is not None and for which calculate_metrics of an engine gives
\* a result, exactly that result, and has no entry for any other item.
C23_ParallelAsSequential ==
    p_call.op = "parallel_metric_calculation" =>
        /\ ~p_call.out.raised
        /\ \A k \in DOMAIN p_call.stock_data_dict :
              \A item \in {p_call.stock_data_dict[k]} :
              \A sequential \in {CalculateMetrics(DefaultCalculators, item[2],
                                                  p_call.benchmark_data,
                                                  p_call.lookback)} :
                  IF item[2].some /\ sequential.some
                  THEN /\ item[1] \in DOMAIN p_call.out.value
                       /\ p_call.out.value[item[1]] = sequential.val
                  ELSE item[1] \notin DOMAIN p_call.out.value

\* ------------------------------------------------------------------------
\* Claims about concurrent get_stock_data calls
\* ------------------------------------------------------------------------
\* C21: of the threads that request one key, at most one at a time has a
\* download under way; and the entry of the table for the key, if any, is a
\* series that the fetch of one of the threads returned.  (The table holds
\* at most one entry for a key by its primary key.)
C21_OneFetchInFlight ==
    /\ Cardinality({w \in DOMAIN workers : workers[w].pc = "fetching"}) <= 1
    /\ ThreadKey \in DOMAIN db =>
          \E w \in DOMAIN workers :
              /\ workers[w].pc \in {"returning", "done"}
              /\ workers[w].value = Some(db[ThreadKey])

\* ------------------------------------------------------------------------
\* Claims about successive screen_stocks calls
\* ------------------------------------------------------------------------
\* The symbol the fetch numbered i of a run is for: 0 is the benchmark
FetchedSymbol(i) == IF i = 0 THEN benchmark ELSE SanitizeTicker(tickers[i])

\* The key under which the call before the current one asked for a symbol
KeyBefore(symbol) ==
    <<symbol, (clock - 1) - (lookback + BufferDays), clock - 1>>

\* C27: in the second of two successive runs with the same arguments, no
\* download is made for a symbol whose series the first run fetched.
C27_SecondRunFromCache ==
    clock > 0 =>
        \A k \in 1..Len(events) :
            events[k][1] = "download" =>
                ~ /\ KeyBefore(FetchedSymbol(events[k][2])) \in DOMAIN lru
                  /\ lru[KeyBefore(FetchedSymbol(events[k][2]))].some

====
